---- MODULE Spec2Model ----
(***************************************************************************)
(* W-TinyLFU memory-management container                                   *)
(* (cachelib/allocator/MMWTinyLFU.h): the three segment lists, the entry   *)
(* flag bits, the frequency sketch and its window, the container lock,     *)
(* the eviction iterator and the unlocked prefix of recordAccess.          *)
(*                                                                         *)
(* Every section of code that runs with lruMutex_ held is one atomic       *)
(* action; the part of recordAccess that runs before the lock is taken is  *)
(* split at each access to shared state, so that other threads interleave  *)
(* with it.                                                                *)
(***************************************************************************)
EXTENDS Integers, Sequences, FiniteSets, TLC

\* ------------------------------------------------------------------ bounds
\* number of cache entries (T objects) the allocator owns
MaxNodes == 3
\* number of distinct values of hashNode over the entries' keys
NumHashes == 2
\* util::getCurrentTimeSec() ranges over 0..MaxTime
MaxTime == 1
\* add and recordAccess are not issued once windowSize_ has reached MaxFetch
MaxFetch == 5
\* the same, when two threads call
MaxFetchConc == 2
\* the same, when the clock moves
MaxFetchTimed == 3
\* the same, when two threads read under a fixed lruRefreshTime
MaxFetchRefresh == 4
\* the same, when every read is recorded and promotion takes four of them
MaxFetchProtect == 5
\* the distinct keys inserted in turn
MaxKeys == 100
\* the entries of the container whose caps are 40 percent, and the adds and
\* recorded reads issued on it
MaxCapNodes == 5
MaxFetchCaps == 6
\* the entries of the container whose Tiny cap is 50 percent, and the adds
\* and recorded reads issued on it
MaxTieNodes == 4
MaxFetchTie == 6
\* the keys added in turn to the container whose sketch decays and grows,
\* and the windowSize_ below which its last key is removed again
MaxSketchKeys == 200
MaxSketchChurn == 2
\* fetches between two restarts of the container that is saved and restored
MaxFetchSave == 2
\* fetches of the container that recomputes its lruRefreshTime
MaxFetchReconf == 3

\* ------------------------------------------------------- program constants
kDefaultCapacity == 100
kHashCount == 4
kErrorThreshold == 5
kLruRefreshTimeCap == 900
\* std::numeric_limits<Time>::max(): "never" for nextReconfigureTime_.  The
\* value of the source (2^32 - 1) is beyond TLC's integers; the model only
\* compares it with times in 0..MaxTime, for which any larger value agrees.
kTimeMax == 2147483647
\* nullptr: what getTail returns on an empty list, an exhausted list iterator
NoNode == 0

Nodes == 1 .. MaxNodes
Threads == {"X", "Y"}
NoThread == "none"
LruTypes == {"Main", "Probation", "Tiny"}
AccessModes == {"kRead", "kWrite"}

Min(S) == CHOOSE x \in S : \A y \in S : x <= y
Max2(a, b) == IF a >= b THEN a ELSE b
Min2(a, b) == IF a <= b THEN a ELSE b
ToSet(s) == {s[i] : i \in DOMAIN s}

VARIABLES
    lru_,                 \* LruType -> the segment's list, head first
    node,                 \* per entry: in-container bit, kMMFlag0..2, updateTime
    accessFreq_,          \* the count-min sketch
    windowSize_,
    maxWindowSize_,
    capacity_,
    config_,
    lruRefreshTime_,
    nextReconfigureTime_,
    lruMutex_,            \* the thread that holds the container lock, or NoThread
    pc,                   \* per thread: where it is
    local,                \* per thread: the recordAccess call it is in
    iter,                 \* per thread: its LockedIterator's tIter_, pIter_, mIter_
    walk,                 \* per thread: the entries its iterator has moved past
    moved,                \* per entry: the time read by the last recordAccess
                          \* that returned true since the entry was linked
    now,                  \* util::getCurrentTimeSec()
    ret                   \* the last call that returned: operation, entry, value

vars == <<lru_, node, accessFreq_, windowSize_, maxWindowSize_, capacity_,
          config_, lruRefreshTime_, nextReconfigureTime_, lruMutex_, pc,
          local, iter, walk, moved, now, ret>>

\* ------------------------------------------------------------------ Config
\* Config(): the member initialisers.  lruRefreshRatio is a double in the
\* source; the model keeps it as the fraction Num / Den.
DefaultConfig ==
    [defaultLruRefreshTime |-> 60,
     lruRefreshTime |-> 60,
     lruRefreshRatioNum |-> 0,
     lruRefreshRatioDen |-> 1,
     updateOnWrite |-> FALSE,
     updateOnRead |-> TRUE,
     tryLockUpdate |-> FALSE,
     windowToCacheSizeRatio |-> 32,
     tinySizePercent |-> 1,
     mmReconfigureIntervalSecs |-> 0,
     newcomerWinsOnTie |-> TRUE,
     protectionFreq_ |-> 3,
     protectionSegmentSizePct |-> 80]

\* Config::checkConfig: the constructors throw unless this holds
checkConfig(c) ==
    /\ ~(c.tinySizePercent < 1 \/ c.tinySizePercent > 50)
    /\ ~(c.windowToCacheSizeRatio < 2 \/ c.windowToCacheSizeRatio > 128)

\* The configurations the container is constructed with or set to: the
\* 11-argument constructor's arguments, chosen so that three entries fill
\* the segments.  With ConfigA every add overflows Tiny and every access of
\* a Probation entry promotes it; with ConfigB the third entry stays in Tiny
\* and a Probation entry is promoted at its key's second count, into a Main
\* list that may take every promoted entry.  ConfigA records writes only,
\* ConfigB reads only.
ConfigA ==
    [DefaultConfig EXCEPT !.defaultLruRefreshTime = 0, !.lruRefreshTime = 0,
                          !.updateOnWrite = TRUE,
                          !.updateOnRead = FALSE,
                          !.windowToCacheSizeRatio = 2,
                          !.protectionFreq_ = 0,
                          !.protectionSegmentSizePct = 34]
ConfigB ==
    [DefaultConfig EXCEPT !.defaultLruRefreshTime = 1, !.lruRefreshTime = 1,
                          !.lruRefreshRatioNum = 1,
                          !.tryLockUpdate = TRUE,
                          !.windowToCacheSizeRatio = 2,
                          !.tinySizePercent = 34,
                          !.mmReconfigureIntervalSecs = 1,
                          !.newcomerWinsOnTie = FALSE,
                          !.protectionFreq_ = 1,
                          !.protectionSegmentSizePct = 100]
Configs == {c \in {ConfigA, ConfigB} : checkConfig(c)}

\* ------------------------------------------- DList / MultiDList (datastruct)
\* A list is the sequence of its entries, head first.
linkAtHead(l, n) == <<n>> \o l
linkAtTail(l, n) == Append(l, n)
listRemove(l, n) == SelectSeq(l, LAMBDA x : x # n)
moveToHead(l, n) == <<n>> \o listRemove(l, n)
listReplace(l, oldNode, newNode) ==
    [i \in DOMAIN l |-> IF l[i] = oldNode THEN newNode ELSE l[i]]
getTail(l) == IF Len(l) = 0 THEN NoNode ELSE l[Len(l)]
getHead(l) == IF Len(l) = 0 THEN NoNode ELSE l[1]
IndexOf(l, n) == CHOOSE i \in DOMAIN l : l[i] = n
\* the hook's prev pointer: the neighbour towards the head
getPrev(l, n) ==
    IF n \in ToSet(l) /\ IndexOf(l, n) > 1 THEN l[IndexOf(l, n) - 1] ELSE NoNode
\* MultiDList::size(): the three lists together
lruSize(lru) == Len(lru["Main"]) + Len(lru["Probation"]) + Len(lru["Tiny"])

\* ------------------------------------------------- CountMinSketch (common)
Hashes == 1 .. NumHashes
Rows == 0 .. (kHashCount - 1)
\* the row's hash of a key hash; two key hashes may meet in some rows
combineHashes(h, r) == h \div (r + 1)
getIndex(width, r, h) == r * width + (combineHashes(h, r) % width)
\* the cells of the table that the entries' keys address; no other cell is
\* ever read
Cells(width) == {getIndex(width, r, h) : r \in Rows, h \in Hashes}
CountMinSketch(numCounters) ==
    [width |-> numCounters, table |-> [c \in Cells(numCounters) |-> 0]]
getCount(s, h) == Min({s.table[getIndex(s.width, r, h)] : r \in Rows})
increment(s, h) ==
    [s EXCEPT !.table =
        [c \in DOMAIN s.table |->
            IF c \in {getIndex(s.width, r, h) : r \in Rows}
            THEN s.table[c] + 1 ELSE s.table[c]]]
\* decayCountsBy(kDecayFactor), kDecayFactor = 0.5: count * 0.5 cast back to
\* the unsigned counter type
decayCountsBy(s) ==
    [s EXCEPT !.table = [c \in DOMAIN s.table |-> s.table[c] \div 2]]

\* folly::nextPowTwo: the least power of two >= v
RECURSIVE powTwoFrom(_, _)
powTwoFrom(p, v) == IF p >= v THEN p ELSE powTwoFrom(2 * p, v)
nextPowTwo(v) == powTwoFrom(1, v)

\* ------------------------------------------------------------- entry flags
\* hashNode: the hash of the entry's key.  Entries MaxNodes apart in hash
\* order have equal hashes (the same key, or keys whose hashes collide).
hashNode(n) == ((n - 1) % NumHashes) + 1

ClearNode ==
    [inMMContainer |-> FALSE, kMMFlag0 |-> FALSE, kMMFlag1 |-> FALSE,
     kMMFlag2 |-> FALSE, updateTime |-> 0]

isTiny(nd, n) == nd[n].kMMFlag0
isAccessed(nd, n) == nd[n].kMMFlag1
isProbation(nd, n) == nd[n].kMMFlag2
markTiny(nd, n) == [nd EXCEPT ![n].kMMFlag0 = TRUE]
unmarkTiny(nd, n) == [nd EXCEPT ![n].kMMFlag0 = FALSE]
markAccessed(nd, n) == [nd EXCEPT ![n].kMMFlag1 = TRUE]
unmarkAccessed(nd, n) == [nd EXCEPT ![n].kMMFlag1 = FALSE]
markProbation(nd, n) == [nd EXCEPT ![n].kMMFlag2 = TRUE]
unmarkProbation(nd, n) == [nd EXCEPT ![n].kMMFlag2 = FALSE]
markInMMContainer(nd, n) == [nd EXCEPT ![n].inMMContainer = TRUE]
unmarkInMMContainer(nd, n) == [nd EXCEPT ![n].inMMContainer = FALSE]
getUpdateTime(nd, n) == nd[n].updateTime
setUpdateTime(nd, n, time) == [nd EXCEPT ![n].updateTime = time]

getLruType(nd, n) ==
    IF isTiny(nd, n) THEN "Tiny"
    ELSE IF isProbation(nd, n) THEN "Probation" ELSE "Main"

\* --------------------------------------------------------------- Container
\* The container and its entries as one value S: the operations below are
\* the bodies the source runs with lruMutex_ held.
Cur ==
    [lru |-> lru_, node |-> node, accessFreq |-> accessFreq_,
     windowSize |-> windowSize_, maxWindowSize |-> maxWindowSize_,
     capacity |-> capacity_, config |-> config_,
     lruRefreshTime |-> lruRefreshTime_,
     nextReconfigureTime |-> nextReconfigureTime_]

Install(S) ==
    /\ lru_' = S.lru
    /\ node' = S.node
    /\ accessFreq_' = S.accessFreq
    /\ windowSize_' = S.windowSize
    /\ maxWindowSize_' = S.maxWindowSize
    /\ capacity_' = S.capacity
    /\ config_' = S.config
    /\ lruRefreshTime_' = S.lruRefreshTime
    /\ nextReconfigureTime_' = S.nextReconfigureTime

\* admitToProbation that never lets the newcomer win a tie
admitToProbationStrict(S, tinyNode, mainNode) ==
    getCount(S.accessFreq, hashNode(tinyNode))
        > getCount(S.accessFreq, hashNode(mainNode))

\* Returns true if tiny node must be admitted to main cache since its
\* frequency is higher than that of the main node.
admitToProbation(S, tinyNode, mainNode) ==
    LET tinyFreq == getCount(S.accessFreq, hashNode(tinyNode))
        mainFreq == getCount(S.accessFreq, hashNode(mainNode))
    IN  IF S.config.newcomerWinsOnTie THEN tinyFreq >= mainFreq
        ELSE tinyFreq > mainFreq

\* maybeGrowAccessCountersLocked without windowSize_ = 0
maybeGrowAccessCountersLockedKeepsWindow(S) ==
    LET capacity == lruSize(S.lru)
        newCapacity == Max2(capacity, kDefaultCapacity)
        newWindow == newCapacity * S.config.windowToCacheSizeRatio
        numCounters == (271828 * newWindow) \div (100000 * kErrorThreshold)
    IN  IF 2 * S.capacity > capacity THEN S
        ELSE [S EXCEPT !.capacity = newCapacity,
                       !.maxWindowSize = newWindow,
                       !.accessFreq = CountMinSketch(nextPowTwo(numCounters))]

maybeGrowAccessCountersLocked(S) ==
    LET capacity == lruSize(S.lru)
        newCapacity == Max2(capacity, kDefaultCapacity)
        newWindow == newCapacity * S.config.windowToCacheSizeRatio
        \* static_cast<size_t>(std::exp(1.0) * maxWindowSize_ / kErrorThreshold)
        numCounters == (271828 * newWindow) \div (100000 * kErrorThreshold)
    IN  IF 2 * S.capacity > capacity THEN S
        ELSE [S EXCEPT !.capacity = newCapacity,
                       !.windowSize = 0,
                       !.maxWindowSize = newWindow,
                       !.accessFreq = CountMinSketch(nextPowTwo(numCounters))]

\* updateFrequenciesLocked that halves windowSize_ but not the counters
updateFrequenciesLockedKeepsCounts(S, n) ==
    LET freq == increment(S.accessFreq, hashNode(n))
        w == S.windowSize + 1
    IN  IF w = S.maxWindowSize
        THEN [S EXCEPT !.accessFreq = freq, !.windowSize = w \div 2]
        ELSE [S EXCEPT !.accessFreq = freq, !.windowSize = w]

updateFrequenciesLocked(S, n) ==
    LET freq == increment(S.accessFreq, hashNode(n))
        w == S.windowSize + 1
    IN  IF w = S.maxWindowSize
        THEN [S EXCEPT !.accessFreq = decayCountsBy(freq), !.windowSize = w \div 2]
        ELSE [S EXCEPT !.accessFreq = freq, !.windowSize = w]

\* the Tiny tail moved to the head of Main instead of Probation
demoteTinyTailToMain(S) ==
    LET tailNode == getTail(S.lru["Tiny"])
    IN  [S EXCEPT !.lru["Tiny"] = listRemove(@, tailNode),
                  !.lru["Main"] = linkAtHead(@, tailNode),
                  !.node = unmarkTiny(@, tailNode)]

\* add's unconditional move of the Tiny tail to the head of Probation
demoteTinyTail(S) ==
    LET tailNode == getTail(S.lru["Tiny"])
    IN  [S EXCEPT !.lru["Tiny"] = listRemove(@, tailNode),
                  !.lru["Probation"] = linkAtHead(@, tailNode),
                  !.node = markProbation(unmarkTiny(@, tailNode), tailNode)]

\* maybePromoteTailLocked without moveToHead(*probationNode) for the tail
\* that is not admitted
maybePromoteTailLockedLeavesTail(S) ==
    LET probationNode == getTail(S.lru["Probation"])
        tinyNode == getTail(S.lru["Tiny"])
    IN  IF probationNode = NoNode THEN S
        ELSE IF tinyNode = NoNode THEN S
        ELSE IF admitToProbation(S, tinyNode, probationNode)
        THEN [S EXCEPT
                !.lru["Tiny"] = linkAtTail(listRemove(@, tinyNode), probationNode),
                !.lru["Probation"] =
                    listRemove(linkAtHead(@, tinyNode), probationNode),
                !.node = markProbation(
                            unmarkProbation(
                                markTiny(unmarkTiny(@, tinyNode), probationNode),
                                probationNode),
                            tinyNode)]
        ELSE S

\* maybePromoteTailLocked without unmarkProbation(*probationNode)
maybePromoteTailLockedKeepsBit(S) ==
    LET probationNode == getTail(S.lru["Probation"])
        tinyNode == getTail(S.lru["Tiny"])
    IN  IF probationNode = NoNode THEN S
        ELSE IF tinyNode = NoNode THEN S
        ELSE IF admitToProbation(S, tinyNode, probationNode)
        THEN [S EXCEPT
                !.lru["Tiny"] = linkAtTail(listRemove(@, tinyNode), probationNode),
                !.lru["Probation"] =
                    listRemove(linkAtHead(@, tinyNode), probationNode),
                !.node = markProbation(
                            markTiny(unmarkTiny(@, tinyNode), probationNode),
                            tinyNode)]
        ELSE [S EXCEPT !.lru["Probation"] = moveToHead(@, probationNode)]

maybePromoteTailLocked(S) ==
    LET probationNode == getTail(S.lru["Probation"])
        tinyNode == getTail(S.lru["Tiny"])
    IN  IF probationNode = NoNode THEN S
        ELSE IF tinyNode = NoNode THEN S
        ELSE IF admitToProbation(S, tinyNode, probationNode)
        THEN [S EXCEPT
                !.lru["Tiny"] = linkAtTail(listRemove(@, tinyNode), probationNode),
                !.lru["Probation"] =
                    listRemove(linkAtHead(@, tinyNode), probationNode),
                !.node = markProbation(
                            unmarkProbation(
                                markTiny(unmarkTiny(@, tinyNode), probationNode),
                                probationNode),
                            tinyNode)]
        ELSE [S EXCEPT !.lru["Probation"] = moveToHead(@, probationNode)]

\* the expected size computed from the size before the entry was linked
tinyExpectedSizeBeforeLink(S) ==
    (S.config.tinySizePercent * (lruSize(S.lru) - 1)) \div 100

\* the expected size rounded up instead of down
tinyExpectedSizeRoundedUp(S) ==
    (S.config.tinySizePercent * lruSize(S.lru) + 99) \div 100

\* config_.tinySizePercent * lru_.size() / 100
tinyExpectedSize(S) == (S.config.tinySizePercent * lruSize(S.lru)) \div 100

\* which way add takes after it has linked and counted the entry: the Tiny
\* tail is demoted ("overflow"), or maybePromoteTailLocked returns at once
\* ("none"), swaps the two tails ("swap") or moves the Probation tail to the
\* head ("relocate")
addBranch(S, n) ==
    LET s1 == [S EXCEPT !.lru["Tiny"] = linkAtHead(@, n),
                        !.node = markTiny(@, n)]
        s2 == updateFrequenciesLocked(s1, n)
        probationNode == getTail(s2.lru["Probation"])
        tinyNode == getTail(s2.lru["Tiny"])
    IN  IF Len(s2.lru["Tiny"]) > tinyExpectedSize(s2) THEN "overflow"
        ELSE IF probationNode = NoNode \/ tinyNode = NoNode THEN "none"
        ELSE IF admitToProbation(s2, tinyNode, probationNode) THEN "swap"
        ELSE "relocate"

\* add without the final unmarkAccessed(node)
addLockedKeepsAccessed(S, n, currTime) ==
    LET s1 == [S EXCEPT !.lru["Tiny"] = linkAtHead(@, n),
                        !.node = markTiny(@, n)]
        s2 == updateFrequenciesLocked(s1, n)
        s3 == IF Len(s2.lru["Tiny"]) > tinyExpectedSize(s2)
              THEN demoteTinyTail(s2)
              ELSE maybePromoteTailLocked(s2)
        s4 == maybeGrowAccessCountersLocked(s3)
    IN  [s4 EXCEPT !.node = setUpdateTime(markInMMContainer(@, n), n, currTime)]

\* add with maybeGrowAccessCountersLocked before updateFrequenciesLocked
addLockedGrowsFirst(S, n, currTime) ==
    LET s1 == [S EXCEPT !.lru["Tiny"] = linkAtHead(@, n),
                        !.node = markTiny(@, n)]
        s2 == updateFrequenciesLocked(maybeGrowAccessCountersLocked(s1), n)
        s3 == IF Len(s2.lru["Tiny"]) > tinyExpectedSize(s2)
              THEN demoteTinyTail(s2)
              ELSE maybePromoteTailLocked(s2)
    IN  [s3 EXCEPT !.node =
            unmarkAccessed(
                setUpdateTime(markInMMContainer(@, n), n, currTime), n)]

\* add, from the in-container check on (the check has passed)
addLocked(S, n, currTime) ==
    LET s1 == [S EXCEPT !.lru["Tiny"] = linkAtHead(@, n),
                        !.node = markTiny(@, n)]
        s2 == updateFrequenciesLocked(s1, n)
        s3 == IF Len(s2.lru["Tiny"]) > tinyExpectedSize(s2)
              THEN demoteTinyTail(s2)
              ELSE maybePromoteTailLocked(s2)
        s4 == maybeGrowAccessCountersLocked(s3)
    IN  [s4 EXCEPT !.node =
            unmarkAccessed(
                setUpdateTime(markInMMContainer(@, n), n, currTime), n)]

\* removeLocked without unmarkAccessed(node)
removeLockedKeepsAccessed(S, n) ==
    LET s1 == IF isTiny(S.node, n)
              THEN [S EXCEPT !.lru["Tiny"] = listRemove(@, n),
                             !.node = unmarkTiny(@, n)]
              ELSE IF isProbation(S.node, n)
              THEN [S EXCEPT !.lru["Probation"] = listRemove(@, n),
                             !.node = unmarkProbation(@, n)]
              ELSE [S EXCEPT !.lru["Main"] = listRemove(@, n)]
    IN  [s1 EXCEPT !.node = unmarkInMMContainer(@, n)]

\* removeLocked without node.unmarkInMMContainer()
removeLockedStaysMarked(S, n) ==
    LET s1 == IF isTiny(S.node, n)
              THEN [S EXCEPT !.lru["Tiny"] = listRemove(@, n),
                             !.node = unmarkTiny(@, n)]
              ELSE IF isProbation(S.node, n)
              THEN [S EXCEPT !.lru["Probation"] = listRemove(@, n),
                             !.node = unmarkProbation(@, n)]
              ELSE [S EXCEPT !.lru["Main"] = listRemove(@, n)]
    IN  [s1 EXCEPT !.node = unmarkAccessed(@, n)]

removeLocked(S, n) ==
    LET s1 == IF isTiny(S.node, n)
              THEN [S EXCEPT !.lru["Tiny"] = listRemove(@, n),
                             !.node = unmarkTiny(@, n)]
              ELSE IF isProbation(S.node, n)
              THEN [S EXCEPT !.lru["Probation"] = listRemove(@, n),
                             !.node = unmarkProbation(@, n)]
              ELSE [S EXCEPT !.lru["Main"] = listRemove(@, n)]
    IN  [s1 EXCEPT !.node = unmarkInMMContainer(unmarkAccessed(@, n), n)]

\* replace's checks without newNode.isInMMContainer()
replaceRefusedNewUnchecked(S, oldNode, newNode) ==
    \/ isTiny(S.node, newNode) \/ isProbation(S.node, newNode)
    \/ ~S.node[oldNode].inMMContainer

\* replace's checks, in the order of the source
replaceRefused(S, oldNode, newNode) ==
    \/ isTiny(S.node, newNode) \/ isProbation(S.node, newNode)
    \/ ~S.node[oldNode].inMMContainer \/ S.node[newNode].inMMContainer

\* replace that always clears newNode's AccessedBit
replaceLockedDropsAccessed(S, oldNode, newNode) ==
    LET updateTime == getUpdateTime(S.node, oldNode)
        s1 == IF isTiny(S.node, oldNode)
              THEN [S EXCEPT !.lru["Tiny"] = listReplace(@, oldNode, newNode),
                             !.node = markTiny(unmarkTiny(@, oldNode), newNode)]
              ELSE IF isProbation(S.node, oldNode)
              THEN [S EXCEPT !.lru["Probation"] = listReplace(@, oldNode, newNode),
                             !.node = markProbation(unmarkProbation(@, oldNode),
                                                    newNode)]
              ELSE [S EXCEPT !.lru["Main"] = listReplace(@, oldNode, newNode)]
        nd2 == setUpdateTime(
                  markInMMContainer(unmarkInMMContainer(s1.node, oldNode), newNode),
                  newNode, updateTime)
    IN  [s1 EXCEPT !.node = unmarkAccessed(nd2, newNode)]

\* replace without unmarkTiny(oldNode) and unmarkProbation(oldNode)
replaceLockedKeepsOldFlag(S, oldNode, newNode) ==
    LET updateTime == getUpdateTime(S.node, oldNode)
        s1 == IF isTiny(S.node, oldNode)
              THEN [S EXCEPT !.lru["Tiny"] = listReplace(@, oldNode, newNode),
                             !.node = markTiny(@, newNode)]
              ELSE IF isProbation(S.node, oldNode)
              THEN [S EXCEPT !.lru["Probation"] = listReplace(@, oldNode, newNode),
                             !.node = markProbation(@, newNode)]
              ELSE [S EXCEPT !.lru["Main"] = listReplace(@, oldNode, newNode)]
        nd2 == setUpdateTime(
                  markInMMContainer(unmarkInMMContainer(s1.node, oldNode), newNode),
                  newNode, updateTime)
    IN  [s1 EXCEPT !.node = IF isAccessed(nd2, oldNode)
                            THEN markAccessed(nd2, newNode)
                            ELSE unmarkAccessed(nd2, newNode)]

\* replace, after the checks have passed
replaceLocked(S, oldNode, newNode) ==
    LET updateTime == getUpdateTime(S.node, oldNode)
        s1 == IF isTiny(S.node, oldNode)
              THEN [S EXCEPT !.lru["Tiny"] = listReplace(@, oldNode, newNode),
                             !.node = markTiny(unmarkTiny(@, oldNode), newNode)]
              ELSE IF isProbation(S.node, oldNode)
              THEN [S EXCEPT !.lru["Probation"] = listReplace(@, oldNode, newNode),
                             !.node = markProbation(unmarkProbation(@, oldNode),
                                                    newNode)]
              ELSE [S EXCEPT !.lru["Main"] = listReplace(@, oldNode, newNode)]
        nd2 == setUpdateTime(
                  markInMMContainer(unmarkInMMContainer(s1.node, oldNode), newNode),
                  newNode, updateTime)
    IN  [s1 EXCEPT !.node = IF isAccessed(nd2, oldNode)
                            THEN markAccessed(nd2, newNode)
                            ELSE unmarkAccessed(nd2, newNode)]

\* Time is uint32_t: curr - updateTime wraps when updateTime > curr.  The
\* wrapped value is 2^32 - d in the source; the model's is kTimeMax + 1 - d,
\* which the clamp below maps to the same result.
timeDiff(a, b) == IF a >= b THEN a - b ELSE (kTimeMax - (b - a)) + 1

\* getEvictionAgeStatLocked(0).warmQueueStat.oldestElementAge
oldestElementAge(S, curr) ==
    LET it == getTail(S.lru["Main"])
    IN  IF it # NoNode THEN timeDiff(curr, getUpdateTime(S.node, it)) ELSE 0

\* reconfigureLocked with the cap applied before the default
reconfigureLockedDefaultLast(S, currTime, clock) ==
    LET scaled == (oldestElementAge(S, clock) * S.config.lruRefreshRatioNum)
                      \div S.config.lruRefreshRatioDen
        lruRefreshTime ==
            Max2(S.config.defaultLruRefreshTime, Min2(scaled, kLruRefreshTimeCap))
    IN  IF currTime < S.nextReconfigureTime THEN S
        ELSE [S EXCEPT
                !.nextReconfigureTime =
                    currTime + S.config.mmReconfigureIntervalSecs,
                !.lruRefreshTime = lruRefreshTime]

\* reconfigureLocked(currTime), called at the time clock: the age of the
\* oldest Main entry is taken from the clock (getEvictionAgeStatLocked reads
\* it again), the test and the next time from currTime
reconfigureLocked(S, currTime, clock) ==
    LET scaled == (oldestElementAge(S, clock) * S.config.lruRefreshRatioNum)
                      \div S.config.lruRefreshRatioDen
        lruRefreshTime ==
            Min2(Max2(S.config.defaultLruRefreshTime, scaled), kLruRefreshTimeCap)
    IN  IF currTime < S.nextReconfigureTime THEN S
        ELSE [S EXCEPT
                !.nextReconfigureTime =
                    currTime + S.config.mmReconfigureIntervalSecs,
                !.lruRefreshTime = lruRefreshTime]

\* protectionSegmentSizePct * (|Probation| + |Main|) / 100
expectedMainSize(S) ==
    (S.config.protectionSegmentSizePct
        * (Len(S.lru["Probation"]) + Len(S.lru["Main"]))) \div 100

\* recordAccess: the move of a Probation entry to the head of Main
promoteToMain(S, n) ==
    [S EXCEPT !.lru["Probation"] = listRemove(@, n),
              !.lru["Main"] = linkAtHead(@, n),
              !.node = unmarkProbation(@, n)]

\* recordAccess without the demotion that follows a promotion
demoteMainTailNever(S) == S

\* the demotion that links the tail of Main at the head of Probation
demoteMainTailToHead(S) ==
    LET mainTail == getTail(S.lru["Main"])
    IN  IF Len(S.lru["Main"]) > expectedMainSize(S) /\ mainTail # NoNode
        THEN [S EXCEPT !.lru["Main"] = listRemove(@, mainTail),
                       !.lru["Probation"] = linkAtHead(@, mainTail),
                       !.node = markProbation(@, mainTail)]
        ELSE S

\* recordAccess: the demotion that follows a promotion
demoteMainTail(S) ==
    LET mainTail == getTail(S.lru["Main"])
    IN  IF Len(S.lru["Main"]) > expectedMainSize(S) /\ mainTail # NoNode
        THEN [S EXCEPT !.lru["Main"] = listRemove(@, mainTail),
                       !.lru["Probation"] = linkAtTail(@, mainTail),
                       !.node = markProbation(@, mainTail)]
        ELSE S

\* whether recordAccess promotes the Probation entry n
protects(S, n) == getCount(S.accessFreq, hashNode(n)) > S.config.protectionFreq_

\* recordAccess with the lock held, without setUpdateTime(node, curr)
recordAccessLockedKeepsTime(S, n, curr, clock) ==
    LET s1 == reconfigureLocked(S, curr, clock)
        lruType == getLruType(s1.node, n)
        s2 == [s1 EXCEPT !.lru[lruType] = moveToHead(@, n)]
        s3 == IF lruType = "Probation" /\ protects(s2, n)
              THEN demoteMainTail(promoteToMain(s2, n))
              ELSE s2
    IN  IF ~s1.node[n].inMMContainer THEN [state |-> s1, val |-> FALSE]
        ELSE [state |-> updateFrequenciesLocked(s3, n), val |-> TRUE]

\* recordAccess with the lock held, from reconfigureLocked(curr) on:
\* the state it leaves and the value it returns
recordAccessLocked(S, n, curr, clock) ==
    LET s1 == reconfigureLocked(S, curr, clock)
        lruType == getLruType(s1.node, n)
        s2 == [s1 EXCEPT !.lru[lruType] = moveToHead(@, n)]
        s3 == IF lruType = "Probation" /\ protects(s2, n)
              THEN demoteMainTail(promoteToMain(s2, n))
              ELSE s2
        s4 == [s3 EXCEPT !.node = setUpdateTime(@, n, curr)]
    IN  IF ~s1.node[n].inMMContainer THEN [state |-> s1, val |-> FALSE]
        ELSE [state |-> updateFrequenciesLocked(s4, n), val |-> TRUE]

\* the test without the refresh-time and AccessedBit conditions
needsUpdateWheneverInContainer(S, n, curr) == S.node[n].inMMContainer

\* recordAccess's test before it takes the lock
needsUpdate(S, n, curr) ==
    /\ S.node[n].inMMContainer
    /\ \/ curr >= getUpdateTime(S.node, n) + S.lruRefreshTime
       \/ ~isAccessed(S.node, n)

\* the first test without its kRead half
modeIgnoredWritesOnly(c, mode) == mode = "kWrite" /\ ~c.updateOnWrite

\* recordAccess's first test: the access mode is not to be recorded
modeIgnored(c, mode) ==
    \/ mode = "kWrite" /\ ~c.updateOnWrite
    \/ mode = "kRead" /\ ~c.updateOnRead

\* Container(Config c, PtrCompressor): the state after construction at
\* time currTime
nextReconfigureAt(c, currTime) ==
    IF c.mmReconfigureIntervalSecs = 0 THEN kTimeMax
    ELSE currTime + c.mmReconfigureIntervalSecs

Constructed(c, currTime) ==
    LET blank == [lru |-> [l \in LruTypes |-> <<>>],
                  node |-> [n \in Nodes |-> ClearNode],
                  accessFreq |-> CountMinSketch(1),
                  windowSize |-> 0, maxWindowSize |-> 0, capacity |-> 0,
                  config |-> c,
                  lruRefreshTime |-> c.lruRefreshTime,
                  nextReconfigureTime |-> nextReconfigureAt(c, currTime)]
    IN  maybeGrowAccessCountersLocked(blank)

setConfigLocked(S, c, currTime) ==
    [S EXCEPT !.config = c,
              !.lruRefreshTime = c.lruRefreshTime,
              !.nextReconfigureTime = nextReconfigureAt(c, currTime)]

\* saveState(): the serialized config and the serialized lists.  The config
\* carries the container's current lruRefreshTime_; its tryLockUpdate is
\* never written and keeps the value of a fresh serialized object.
saveState(S) ==
    [config |->
        [lruRefreshTime |-> S.lruRefreshTime,
         lruRefreshRatioNum |-> S.config.lruRefreshRatioNum,
         lruRefreshRatioDen |-> S.config.lruRefreshRatioDen,
         updateOnWrite |-> S.config.updateOnWrite,
         updateOnRead |-> S.config.updateOnRead,
         tryLockUpdate |-> FALSE,
         windowToCacheSizeRatio |-> S.config.windowToCacheSizeRatio,
         tinySizePercent |-> S.config.tinySizePercent,
         mmReconfigureIntervalSecs |-> S.config.mmReconfigureIntervalSecs,
         newcomerWinsOnTie |-> S.config.newcomerWinsOnTie,
         protectionSegmentSizePct |-> S.config.protectionSegmentSizePct,
         protectionFreq_ |-> S.config.protectionFreq_],
     lrus |-> S.lru]

\* Config(SerializationConfigType configState): the 11-argument constructor
\* on the serialized members
ConfigFromSaved(configState) ==
    [defaultLruRefreshTime |-> configState.lruRefreshTime,
     lruRefreshTime |-> configState.lruRefreshTime,
     lruRefreshRatioNum |-> configState.lruRefreshRatioNum,
     lruRefreshRatioDen |-> configState.lruRefreshRatioDen,
     updateOnWrite |-> configState.updateOnWrite,
     updateOnRead |-> configState.updateOnRead,
     tryLockUpdate |-> configState.tryLockUpdate,
     windowToCacheSizeRatio |-> configState.windowToCacheSizeRatio,
     tinySizePercent |-> configState.tinySizePercent,
     mmReconfigureIntervalSecs |-> configState.mmReconfigureIntervalSecs,
     newcomerWinsOnTie |-> configState.newcomerWinsOnTie,
     protectionFreq_ |-> configState.protectionFreq_,
     protectionSegmentSizePct |-> configState.protectionSegmentSizePct]

\* Container(serialization::MMTinyLFUObject object, PtrCompressor): the
\* lists and the config of the object, over the entries as they are in memory
Restored(S, object, currTime) ==
    LET c == ConfigFromSaved(object.config)
        blank == [lru |-> object.lrus,
                  node |-> S.node,
                  accessFreq |-> CountMinSketch(1),
                  windowSize |-> 0, maxWindowSize |-> 0, capacity |-> 0,
                  config |-> c,
                  lruRefreshTime |-> c.lruRefreshTime,
                  nextReconfigureTime |-> nextReconfigureAt(c, currTime)]
    IN  maybeGrowAccessCountersLocked(blank)

\* ---------------------------------------------------------- LockedIterator
NoIter == [t |-> NoNode, p |-> NoNode, m |-> NoNode]
\* LockedIterator(l, c): the three lists' rbegin()
iterBegin(S) ==
    [t |-> getTail(S.lru["Tiny"]), p |-> getTail(S.lru["Probation"]),
     m |-> getTail(S.lru["Main"])]
\* operator bool that leaves mIter_ out
iterValidNoMain(i) == i.t # NoNode \/ i.p # NoNode
\* operator bool
iterValid(i) == i.t # NoNode \/ i.p # NoNode \/ i.m # NoNode
\* getIter that returns mIter_ where the source returns tIter_ on !pIter_
getIterMainFirst(S, i) ==
    IF i.p = NoNode /\ i.m = NoNode THEN "t"
    ELSE IF i.p = NoNode /\ i.t = NoNode THEN "m"
    ELSE IF i.t = NoNode /\ i.m = NoNode THEN "p"
    ELSE IF i.p = NoNode THEN "m"
    ELSE IF i.t = NoNode THEN "p"
    ELSE IF ~admitToProbation(S, i.t, i.p) THEN "t" ELSE "p"
\* getIter that returns tIter_ when admitToProbation holds
getIterPrefersAdmitted(S, i) ==
    IF i.p = NoNode /\ i.m = NoNode THEN "t"
    ELSE IF i.p = NoNode /\ i.t = NoNode THEN "m"
    ELSE IF i.t = NoNode /\ i.m = NoNode THEN "p"
    ELSE IF i.p = NoNode THEN "t"
    ELSE IF i.t = NoNode THEN "p"
    ELSE IF admitToProbation(S, i.t, i.p) THEN "t" ELSE "p"
\* getIter: the name of the list iterator that is current
getIter(S, i) ==
    IF i.p = NoNode /\ i.m = NoNode THEN "t"
    ELSE IF i.p = NoNode /\ i.t = NoNode THEN "m"
    ELSE IF i.t = NoNode /\ i.m = NoNode THEN "p"
    ELSE IF i.p = NoNode THEN "t"
    ELSE IF i.t = NoNode THEN "p"
    ELSE IF ~admitToProbation(S, i.t, i.p) THEN "t" ELSE "p"
\* operator*: the entry the iterator points at
iterDeref(S, i) == i[getIter(S, i)]
\* the list a list iterator walks
listOf(which) ==
    IF which = "t" THEN "Tiny" ELSE IF which = "p" THEN "Probation" ELSE "Main"
\* operator++: the current list iterator moves one entry towards the head
iterAdvance(S, i) ==
    LET which == getIter(S, i)
    IN  [i EXCEPT ![which] = getPrev(S.lru[listOf(which)], i[which])]

\* remove(LockedIterator& it) with ++it after removeLocked(node): the list
\* iterator steps from an entry that is no longer linked
removeItThenAdvance(S, i) ==
    [state |-> removeLocked(S, iterDeref(S, i)),
     iter |-> iterAdvance(removeLocked(S, iterDeref(S, i)), i)]

\* remove(LockedIterator& it): T& node = *it; ++it; removeLocked(node)
removeIt(S, i) ==
    [state |-> removeLocked(S, iterDeref(S, i)), iter |-> iterAdvance(S, i)]

\* ----------------------------------------------------------------- actions
containerVars ==
    <<lru_, node, accessFreq_, windowSize_, maxWindowSize_, capacity_, config_,
      lruRefreshTime_, nextReconfigureTime_>>
threadVars == <<lruMutex_, pc, local, iter, walk>>
\* what the test of recordAccess reads before the lock is taken
NoSeen == [acc |-> FALSE, upd |-> 0, refresh |-> 0]

\* a thread's recordAccess in flight: its node and mode, the time it read,
\* what its unlocked test read (AccessedBit, updateTime, lruRefreshTime_),
\* whether the call has written to the entry so far, and whether another
\* recordAccess of the same entry has returned true since the test
NoLocal ==
    [node |-> NoNode, mode |-> "", curr |-> 0, seen |-> NoSeen,
     wrote |-> FALSE, overtaken |-> FALSE]
\* the last call that returned: the operation, its argument(s), the value
\* returned and where the call stood: for recordAccess the point of return
\* ("mode", "test", "trylock", "recheck") or the list the entry was in when
\* the lock was taken; for remove the list the entry was in; for add the
\* way it took (addBranch)
NoRet == [op |-> "none", node |-> NoNode, node2 |-> NoNode, val |-> FALSE,
          info |-> "", mode |-> ""]
Returned(op, n, n2, val, info) ==
    [op |-> op, node |-> n, node2 |-> n2, val |-> val, info |-> info,
     mode |-> ""]
\* a recordAccess(n, mode) has returned
ReturnedAccess(n, mode, val, info) ==
    [op |-> "recordAccess", node |-> n, node2 |-> NoNode, val |-> val,
     info |-> info, mode |-> mode]

\* the lock taken without regard to its holder
canLockAlways(t) == TRUE
\* LockHolder l(lruMutex_): the lock can be taken
canLock(t) == lruMutex_ = NoThread

\* the container constructed with config c at time 0, nothing called yet
InitWith(c) ==
    /\ LET S == Constructed(c, 0)
       IN  /\ lru_ = S.lru
           /\ node = S.node
           /\ accessFreq_ = S.accessFreq
           /\ windowSize_ = S.windowSize
           /\ maxWindowSize_ = S.maxWindowSize
           /\ capacity_ = S.capacity
           /\ config_ = S.config
           /\ lruRefreshTime_ = S.lruRefreshTime
           /\ nextReconfigureTime_ = S.nextReconfigureTime
    /\ lruMutex_ = NoThread
    /\ pc = [t \in Threads |-> "idle"]
    /\ local = [t \in Threads |-> NoLocal]
    /\ iter = [t \in Threads |-> NoIter]
    /\ walk = [t \in Threads |-> <<>>]
    /\ moved = [n \in Nodes |-> {}]
    /\ now = 0
    /\ ret = NoRet

Init == \E c \in Configs : InitWith(c)

\* the clock moves on
Tick ==
    /\ now < MaxTime
    /\ now' = now + 1
    /\ ret' = NoRet
    /\ UNCHANGED <<containerVars, threadVars, moved>>

\* bool add(T& node)
Add(t, n) ==
    /\ pc[t] = "idle"
    /\ canLock(t)
    /\ IF node[n].inMMContainer
       THEN /\ ret' = Returned("add", n, NoNode, FALSE, "")
            /\ UNCHANGED <<containerVars, moved>>
       ELSE /\ Install(addLocked(Cur, n, now))
            /\ moved' = [moved EXCEPT ![n] = {}]
            /\ ret' = Returned("add", n, NoNode, TRUE, addBranch(Cur, n))
    /\ UNCHANGED <<threadVars, now>>

\* bool remove(T& node)
Remove(t, n) ==
    /\ pc[t] = "idle"
    /\ canLock(t)
    /\ IF ~node[n].inMMContainer
       THEN /\ ret' = Returned("remove", n, NoNode, FALSE, "")
            /\ UNCHANGED <<containerVars, moved>>
       ELSE /\ Install(removeLocked(Cur, n))
            /\ moved' = [moved EXCEPT ![n] = {}]
            /\ ret' = Returned("remove", n, NoNode, TRUE, getLruType(node, n))
    /\ UNCHANGED <<threadVars, now>>

\* bool replace(T& oldNode, T& newNode)
Replace(t, oldNode, newNode) ==
    /\ pc[t] = "idle"
    /\ canLock(t)
    /\ IF replaceRefused(Cur, oldNode, newNode)
       THEN /\ ret' = Returned("replace", oldNode, newNode, FALSE, "")
            /\ UNCHANGED <<containerVars, moved>>
       ELSE /\ Install(replaceLocked(Cur, oldNode, newNode))
            /\ moved' = [moved EXCEPT ![oldNode] = {}, ![newNode] = {}]
            /\ ret' = Returned("replace", oldNode, newNode, TRUE,
                               getLruType(node, oldNode))
    /\ UNCHANGED <<threadVars, now>>

\* void setConfig(const Config&)
SetConfig(t, c) ==
    /\ pc[t] = "idle"
    /\ canLock(t)
    /\ Install(setConfigLocked(Cur, c, now))
    /\ ret' = Returned("setConfig", NoNode, NoNode, TRUE, "")
    /\ UNCHANGED <<threadVars, moved, now>>

\* saveState() and then a container constructed from the saved object
SaveRestore(t) ==
    /\ \A u \in Threads : pc[u] = "idle" /\ iter[u] = NoIter
    /\ canLock(t)
    /\ Install(Restored(Cur, saveState(Cur), now))
    /\ ret' = Returned("restore", NoNode, NoNode, TRUE, "")
    /\ UNCHANGED <<threadVars, moved, now>>

\* recordAccess up to its unlocked test: the mode, the time, the test
RecordAccessCheck(t, n, mode) ==
    /\ pc[t] = "idle"
    /\ IF modeIgnored(config_, mode)
       THEN /\ ret' = ReturnedAccess(n, mode, FALSE, "mode")
            /\ UNCHANGED <<pc, local>>
       ELSE IF ~needsUpdate(Cur, n, now)
       THEN /\ ret' = ReturnedAccess(n, mode, FALSE, "test")
            /\ UNCHANGED <<pc, local>>
       ELSE /\ pc' = [pc EXCEPT ![t] = "mark"]
            /\ local' = [local EXCEPT
                           ![t] = [node |-> n, mode |-> mode, curr |-> now,
                                   seen |-> [acc |-> isAccessed(node, n),
                                             upd |-> getUpdateTime(node, n),
                                             refresh |-> lruRefreshTime_],
                                   wrote |-> FALSE, overtaken |-> FALSE]]
            /\ ret' = NoRet
    /\ UNCHANGED <<containerVars, lruMutex_, iter, walk, moved, now>>

\* recordAccess: if (!isAccessed(node)) markAccessed(node), before the lock
RecordAccessMark(t) ==
    /\ pc[t] = "mark"
    /\ node' = IF ~isAccessed(node, local[t].node)
               THEN markAccessed(node, local[t].node) ELSE node
    /\ local' = [local EXCEPT ![t].wrote = ~isAccessed(node, local[t].node)]
    /\ pc' = [pc EXCEPT ![t] = "lock"]
    /\ ret' = NoRet
    /\ UNCHANGED <<lru_, accessFreq_, windowSize_, maxWindowSize_, capacity_,
                   config_, lruRefreshTime_, nextReconfigureTime_, lruMutex_,
                   iter, walk, moved, now>>

\* recordAccess: the lock is taken (lock(), or try_lock() that succeeds) and
\* the rest of the call runs
RecordAccessLocked(t) ==
    /\ pc[t] = "lock"
    /\ canLock(t)
    /\ LET n == local[t].node
           r == recordAccessLocked(Cur, n, local[t].curr, now)
       IN  /\ Install(r.state)
           /\ ret' = ReturnedAccess(n, local[t].mode, r.val,
                              IF r.val THEN getLruType(node, n) ELSE "recheck")
           /\ moved' = IF r.val THEN [moved EXCEPT ![n] = {local[t].curr}]
                        ELSE moved
           /\ local' = [u \in Threads |->
                           IF u = t THEN NoLocal
                           ELSE IF r.val /\ local[u].node = n
                           THEN [local[u] EXCEPT !.overtaken = TRUE]
                           ELSE local[u]]
    /\ pc' = [pc EXCEPT ![t] = "idle"]
    /\ UNCHANGED <<lruMutex_, iter, walk, now>>

\* recordAccess without `if (!l.owns_lock()) return false`: the rest of
\* the call runs although try_lock() failed
RecordAccessIgnoresOwnsLock(t) ==
    /\ pc[t] = "lock"
    /\ config_.tryLockUpdate
    /\ lruMutex_ # NoThread
    /\ LET n == local[t].node
           r == recordAccessLocked(Cur, n, local[t].curr, now)
       IN  /\ Install(r.state)
           /\ ret' = ReturnedAccess(n, local[t].mode, r.val,
                              IF r.val THEN getLruType(node, n) ELSE "recheck")
           /\ moved' = IF r.val THEN [moved EXCEPT ![n] = {local[t].curr}]
                        ELSE moved
           /\ local' = [u \in Threads |->
                           IF u = t THEN NoLocal
                           ELSE IF r.val /\ local[u].node = n
                           THEN [local[u] EXCEPT !.overtaken = TRUE]
                           ELSE local[u]]
    /\ pc' = [pc EXCEPT ![t] = "idle"]
    /\ UNCHANGED <<lruMutex_, iter, walk, now>>

\* recordAccess: try_lock() fails
RecordAccessTryLockFailed(t) ==
    /\ pc[t] = "lock"
    /\ config_.tryLockUpdate
    /\ ~canLock(t)
    /\ ret' = ReturnedAccess(local[t].node, local[t].mode, FALSE, "trylock")
    /\ pc' = [pc EXCEPT ![t] = "idle"]
    /\ local' = [local EXCEPT ![t] = NoLocal]
    /\ UNCHANGED <<containerVars, lruMutex_, iter, walk, moved, now>>

\* LockedIterator getEvictionIterator()
GetEvictionIterator(t) ==
    /\ pc[t] = "idle"
    /\ canLock(t)
    /\ lruMutex_' = t
    /\ pc' = [pc EXCEPT ![t] = "iter"]
    /\ iter' = [iter EXCEPT ![t] = iterBegin(Cur)]
    /\ walk' = [walk EXCEPT ![t] = <<>>]
    /\ ret' = Returned("getEvictionIterator", NoNode, NoNode, TRUE, "")
    /\ UNCHANGED <<containerVars, local, moved, now>>

\* LockedIterator::operator++ on a valid iterator
IterNext(t) ==
    /\ pc[t] = "iter"
    /\ iterValid(iter[t])
    /\ iter' = [iter EXCEPT ![t] = iterAdvance(Cur, iter[t])]
    /\ walk' = [walk EXCEPT ![t] = Append(@, iterDeref(Cur, iter[t]))]
    /\ ret' = Returned("next", iterDeref(Cur, iter[t]), NoNode, TRUE, "")
    /\ UNCHANGED <<containerVars, lruMutex_, pc, local, moved, now>>

\* void remove(LockedIterator& it) on a valid iterator
IterRemove(t) ==
    /\ pc[t] = "iter"
    /\ iterValid(iter[t])
    /\ LET n == iterDeref(Cur, iter[t])
           r == removeIt(Cur, iter[t])
       IN  /\ iter' = [iter EXCEPT ![t] = r.iter]
           /\ Install(r.state)
           /\ walk' = [walk EXCEPT ![t] = Append(@, n)]
           /\ moved' = [moved EXCEPT ![n] = {}]
           /\ ret' = Returned("removeIt", n, NoNode, TRUE, getLruType(node, n))
    /\ UNCHANGED <<lruMutex_, pc, local, now>>

\* LockedIterator::resetToBegin with the lock held
IterResetToBegin(t) ==
    /\ pc[t] = "iter"
    /\ iter' = [iter EXCEPT ![t] = iterBegin(Cur)]
    /\ walk' = [walk EXCEPT ![t] = <<>>]
    /\ ret' = NoRet
    /\ UNCHANGED <<containerVars, lruMutex_, pc, local, moved, now>>

\* LockedIterator::destroy (and the iterator's destructor): reset, unlock
IterDestroy(t) ==
    /\ pc[t] = "iter"
    /\ iter' = [iter EXCEPT ![t] = NoIter]
    /\ walk' = [walk EXCEPT ![t] = <<>>]
    /\ lruMutex_' = NoThread
    /\ pc' = [pc EXCEPT ![t] = "idle"]
    /\ ret' = NoRet
    /\ UNCHANGED <<containerVars, local, moved, now>>

\* One caller: thread X issues every operation and each call returns before
\* the next is issued.  The clock stands still.
Next ==
    \/ \E n \in Nodes :
          (windowSize_ < MaxFetch \/ node[n].inMMContainer) /\ Add("X", n)
    \/ \E n \in Nodes : Remove("X", n)
    \/ \E o \in Nodes, n \in Nodes : Replace("X", o, n)
    \/ \E c \in Configs : SetConfig("X", c)
    \/ \E n \in Nodes, m \in AccessModes :
          /\ \/ windowSize_ < MaxFetch
             \/ modeIgnored(config_, m) \/ ~needsUpdate(Cur, n, now)
          /\ RecordAccessCheck("X", n, m)
    \/ RecordAccessMark("X")
    \/ RecordAccessLocked("X")
    \/ GetEvictionIterator("X")
    \/ IterNext("X")
    \/ IterRemove("X")
    \/ IterResetToBegin("X")
    \/ IterDestroy("X")

Spec == Init /\ [][Next]_vars

\* Two callers: the threads' calls interleave at the lock and at each step
\* of recordAccess before the lock.  The clock stands still.
NextConc ==
    \/ \E t \in Threads, n \in Nodes : windowSize_ < MaxFetchConc /\ Add(t, n)
    \/ \E t \in Threads, n \in Nodes : Remove(t, n)
    \/ \E t \in Threads, o \in Nodes, n \in Nodes : Replace(t, o, n)
    \/ \E t \in Threads, c \in Configs : SetConfig(t, c)
    \/ \E t \in Threads, n \in Nodes, m \in AccessModes :
          windowSize_ < MaxFetchConc /\ RecordAccessCheck(t, n, m)
    \/ \E t \in Threads : RecordAccessMark(t)
    \/ \E t \in Threads : RecordAccessLocked(t)
    \/ \E t \in Threads : RecordAccessTryLockFailed(t)
    \/ \E t \in Threads : GetEvictionIterator(t)
    \/ \E t \in Threads : IterNext(t)
    \/ \E t \in Threads : IterRemove(t)
    \/ \E t \in Threads : IterResetToBegin(t)
    \/ \E t \in Threads : IterDestroy(t)

SpecConc == Init /\ [][NextConc]_vars

\* One caller and a clock that moves between the steps.
NextTimed ==
    \/ Tick
    \/ \E n \in Nodes : windowSize_ < MaxFetchTimed /\ Add("X", n)
    \/ \E n \in Nodes : Remove("X", n)
    \/ \E o \in Nodes, n \in Nodes : Replace("X", o, n)
    \/ \E c \in Configs : SetConfig("X", c)
    \/ \E n \in Nodes, m \in AccessModes :
          windowSize_ < MaxFetchTimed /\ RecordAccessCheck("X", n, m)
    \/ RecordAccessMark("X")
    \/ RecordAccessLocked("X")
    \/ GetEvictionIterator("X")
    \/ IterNext("X")
    \/ IterRemove("X")
    \/ IterResetToBegin("X")
    \/ IterDestroy("X")

SpecTimed == Init /\ [][NextTimed]_vars

\* One caller, a clock that moves, and a restart (saveState, then the
\* container constructed from the saved object) between any two calls.
NextSave ==
    \/ Tick
    \/ \E n \in Nodes : windowSize_ < MaxFetchSave /\ Add("X", n)
    \/ \E n \in Nodes : Remove("X", n)
    \/ \E c \in Configs : SetConfig("X", c)
    \/ \E n \in Nodes, m \in AccessModes :
          windowSize_ < MaxFetchSave /\ RecordAccessCheck("X", n, m)
    \/ RecordAccessMark("X")
    \/ RecordAccessLocked("X")
    \/ SaveRestore("X")

SpecSave == Init /\ [][NextSave]_vars

\* Two callers that add and read entries of a container whose
\* lruRefreshTime is fixed at one second (no setConfig, reconfiguration
\* disabled as by default), while the clock moves.
ConfigRefresh ==
    [DefaultConfig EXCEPT !.defaultLruRefreshTime = 1, !.lruRefreshTime = 1]
InitRefresh == InitWith(ConfigRefresh)
NextRefresh ==
    \/ Tick
    \/ \E t \in Threads, n \in Nodes :
          windowSize_ < MaxFetchRefresh /\ Add(t, n)
    \/ \E t \in Threads, n \in Nodes :
          windowSize_ < MaxFetchRefresh /\ RecordAccessCheck(t, n, "kRead")
    \/ \E t \in Threads : RecordAccessMark(t)
    \/ \E t \in Threads : RecordAccessLocked(t)

SpecRefresh == InitRefresh /\ [][NextRefresh]_vars

\* Two callers that add, remove and read entries of a container that
\* recomputes its lruRefreshTime every second, while the clock moves.  The
\* first read of an entry promotes it to Main, which may take every entry.
ConfigReconf(time, ratio) ==
    [DefaultConfig EXCEPT !.defaultLruRefreshTime = time,
                          !.lruRefreshTime = time,
                          !.lruRefreshRatioNum = ratio,
                          !.mmReconfigureIntervalSecs = 1,
                          !.protectionFreq_ = 0,
                          !.protectionSegmentSizePct = 100]
ReconfConfigs ==
    {ConfigReconf(time, ratio) :
        time \in {1, kLruRefreshTimeCap + 1}, ratio \in {500, 1000}}
InitReconf == \E c \in ReconfConfigs : InitWith(c)
NextReconf ==
    \/ Tick
    \/ \E t \in Threads, n \in Nodes :
          windowSize_ < MaxFetchReconf /\ Add(t, n)
    \/ \E t \in Threads, n \in Nodes : Remove(t, n)
    \/ \E t \in Threads, n \in Nodes :
          windowSize_ < MaxFetchReconf /\ RecordAccessCheck(t, n, "kRead")
    \/ \E t \in Threads : RecordAccessMark(t)
    \/ \E t \in Threads : RecordAccessLocked(t)

SpecReconf == InitReconf /\ [][NextReconf]_vars

\* One caller that adds and reads entries of a container with the default
\* protectionFreq = 3 and lruRefreshTime = 0: every read is recorded.
ConfigProtect ==
    [DefaultConfig EXCEPT !.defaultLruRefreshTime = 0, !.lruRefreshTime = 0]
InitProtect == InitWith(ConfigProtect)
NextProtect ==
    \/ \E n \in Nodes : windowSize_ < MaxFetchProtect /\ Add("X", n)
    \/ \E n \in Nodes :
          windowSize_ < MaxFetchProtect /\ RecordAccessCheck("X", n, "kRead")
    \/ RecordAccessMark("X")
    \/ RecordAccessLocked("X")

SpecProtect == InitProtect /\ [][NextProtect]_vars

\* One caller that adds the keys 1, 2, ... in turn to a container with
\* tinySizePercent = 10, each key once (adding the last key again returns
\* false and changes nothing).
Keys == 1 .. MaxKeys
ConfigTiny10 == [DefaultConfig EXCEPT !.tinySizePercent = 10]
InitKeys ==
    /\ LET S == Constructed(ConfigTiny10, 0)
       IN  /\ lru_ = S.lru
           /\ node = [n \in Keys |-> ClearNode]
           /\ accessFreq_ = S.accessFreq
           /\ windowSize_ = S.windowSize
           /\ maxWindowSize_ = S.maxWindowSize
           /\ capacity_ = S.capacity
           /\ config_ = S.config
           /\ lruRefreshTime_ = S.lruRefreshTime
           /\ nextReconfigureTime_ = S.nextReconfigureTime
    /\ lruMutex_ = NoThread
    /\ pc = [t \in Threads |-> "idle"]
    /\ local = [t \in Threads |-> NoLocal]
    /\ iter = [t \in Threads |-> NoIter]
    /\ walk = [t \in Threads |-> <<>>]
    /\ moved = [n \in Keys |-> {}]
    /\ now = 0
    /\ ret = NoRet
NextKeys ==
    \E n \in Keys : n \in {lruSize(lru_), lruSize(lru_) + 1} /\ Add("X", n)

SpecKeys == InitKeys /\ [][NextKeys]_vars

\* One caller that adds, removes and reads five entries of a container
\* whose Tiny and Main caps are 40 percent, with every read recorded and a
\* Probation entry promoted at its first read.
CapNodes == 1 .. MaxCapNodes
ConfigCaps ==
    [DefaultConfig EXCEPT !.defaultLruRefreshTime = 0, !.lruRefreshTime = 0,
                          !.tinySizePercent = 40,
                          !.protectionFreq_ = 0,
                          !.protectionSegmentSizePct = 40]
InitCaps ==
    /\ LET S == Constructed(ConfigCaps, 0)
       IN  /\ lru_ = S.lru
           /\ node = [n \in CapNodes |-> ClearNode]
           /\ accessFreq_ = S.accessFreq
           /\ windowSize_ = S.windowSize
           /\ maxWindowSize_ = S.maxWindowSize
           /\ capacity_ = S.capacity
           /\ config_ = S.config
           /\ lruRefreshTime_ = S.lruRefreshTime
           /\ nextReconfigureTime_ = S.nextReconfigureTime
    /\ lruMutex_ = NoThread
    /\ pc = [t \in Threads |-> "idle"]
    /\ local = [t \in Threads |-> NoLocal]
    /\ iter = [t \in Threads |-> NoIter]
    /\ walk = [t \in Threads |-> <<>>]
    /\ moved = [n \in CapNodes |-> {}]
    /\ now = 0
    /\ ret = NoRet
NextCaps ==
    \/ \E n \in CapNodes : windowSize_ < MaxFetchCaps /\ Add("X", n)
    \/ \E n \in CapNodes : Remove("X", n)
    \/ \E n \in CapNodes :
          windowSize_ < MaxFetchCaps /\ RecordAccessCheck("X", n, "kRead")
    \/ RecordAccessMark("X")
    \/ RecordAccessLocked("X")

SpecCaps == InitCaps /\ [][NextCaps]_vars

\* One caller that adds, removes and reads four entries of a container
\* whose Tiny cap is 50 percent, so that every second add runs
\* maybePromoteTailLocked, constructed with newcomerWinsOnTie set or clear.
\* Reads are recorded and count, and promote at the fourth count.
TieNodes == 1 .. MaxTieNodes
ConfigTie(newcomerWinsOnTie) ==
    [DefaultConfig EXCEPT !.defaultLruRefreshTime = 0, !.lruRefreshTime = 0,
                          !.tinySizePercent = 50,
                          !.newcomerWinsOnTie = newcomerWinsOnTie]
InitTie ==
    /\ \E b \in BOOLEAN :
        LET S == Constructed(ConfigTie(b), 0)
        IN  /\ lru_ = S.lru
            /\ node = [n \in TieNodes |-> ClearNode]
            /\ accessFreq_ = S.accessFreq
            /\ windowSize_ = S.windowSize
            /\ maxWindowSize_ = S.maxWindowSize
            /\ capacity_ = S.capacity
            /\ config_ = S.config
            /\ lruRefreshTime_ = S.lruRefreshTime
            /\ nextReconfigureTime_ = S.nextReconfigureTime
    /\ lruMutex_ = NoThread
    /\ pc = [t \in Threads |-> "idle"]
    /\ local = [t \in Threads |-> NoLocal]
    /\ iter = [t \in Threads |-> NoIter]
    /\ walk = [t \in Threads |-> <<>>]
    /\ moved = [n \in TieNodes |-> {}]
    /\ now = 0
    /\ ret = NoRet
NextTie ==
    \/ \E n \in TieNodes : windowSize_ < MaxFetchTie /\ Add("X", n)
    \/ \E n \in TieNodes : Remove("X", n)
    \/ \E n \in TieNodes :
          windowSize_ < MaxFetchTie /\ RecordAccessCheck("X", n, "kRead")
    \/ RecordAccessMark("X")
    \/ RecordAccessLocked("X")

SpecTie == InitTie /\ [][NextTie]_vars

\* One caller that adds the keys 1, 2, ... in turn, removes the last key
\* when the container holds capacity_ entries and windowSize_ is small, and
\* sets the configuration, on a container constructed with
\* windowToCacheSizeRatio 2 or 8; once two keys are in, it may turn to
\* reading key 1 over and over instead of adding more keys, and then removes
\* key 2 and adds it again when the window is about to fill.  The window
\* fills at 200 fetches (ratio 2) and the counters are re-created at 200
\* entries.
SketchKeys == 1 .. MaxSketchKeys
ConfigSketch(ratio) ==
    [DefaultConfig EXCEPT !.defaultLruRefreshTime = 0, !.lruRefreshTime = 0,
                          !.windowToCacheSizeRatio = ratio]
SketchConfigs == {c \in {ConfigSketch(2), ConfigSketch(8)} : checkConfig(c)}
InitSketch ==
    /\ \E c \in SketchConfigs :
        LET S == Constructed(c, 0)
        IN  /\ lru_ = S.lru
            /\ node = [n \in SketchKeys |-> ClearNode]
            /\ accessFreq_ = S.accessFreq
            /\ windowSize_ = S.windowSize
            /\ maxWindowSize_ = S.maxWindowSize
            /\ capacity_ = S.capacity
            /\ config_ = S.config
            /\ lruRefreshTime_ = S.lruRefreshTime
            /\ nextReconfigureTime_ = S.nextReconfigureTime
    /\ lruMutex_ = NoThread
    /\ pc = [t \in Threads |-> "idle"]
    /\ local = [t \in Threads |-> NoLocal]
    /\ iter = [t \in Threads |-> NoIter]
    /\ walk = [t \in Threads |-> <<>>]
    /\ moved = [n \in SketchKeys |-> {}]
    /\ now = 0
    /\ ret = NoRet
NextSketch ==
    \/ \E n \in SketchKeys :
          /\ n = lruSize(lru_) + 1
          /\ ~isAccessed(node, 1) \/ n = 2
          /\ Add("X", n)
    \/ \E n \in SketchKeys :
          /\ n = lruSize(lru_) /\ n = capacity_
          /\ windowSize_ < MaxSketchChurn
          /\ Remove("X", n)
    \/ /\ lruSize(lru_) = 2 /\ windowSize_ + 1 = maxWindowSize_
       /\ Remove("X", 2)
    \/ \E c \in SketchConfigs : SetConfig("X", c)
    \/ lruSize(lru_) = 2 /\ RecordAccessCheck("X", 1, "kRead")
    \/ RecordAccessMark("X")
    \/ RecordAccessLocked("X")

SpecSketch == InitSketch /\ [][NextSketch]_vars

\* ------------------------------------------------------------ properties
\* no call is in flight: every thread is between calls or holds an iterator
Quiescent == \A t \in Threads : pc[t] \in {"idle", "iter"}
InContainer == {n \in Nodes : node[n].inMMContainer}
\* the places of entry n in the three lists
Places(n) ==
    UNION {{<<l, i>> : i \in {j \in DOMAIN lru_[l] : lru_[l][j] = n}} :
           l \in LruTypes}
\* the list the flag bits of entry n name
FlaggedList(n) ==
    IF node[n].kMMFlag0 THEN "Tiny"
    ELSE IF node[n].kMMFlag2 THEN "Probation" ELSE "Main"

\* C1: at quiescent points every in-container entry is linked in exactly one
\* list, never has both the Tiny and the Probation bit, and the list it is
\* in is the one its flags name (Tiny bit: Tiny; Probation bit: Probation;
\* neither: Main).
C1_FlagsNameTheList ==
    Quiescent =>
        \A n \in InContainer :
            /\ Cardinality(Places(n)) = 1
            /\ ~(node[n].kMMFlag0 /\ node[n].kMMFlag2)
            /\ n \in ToSet(lru_[FlaggedList(n)])
\* entries in all three lists, after calls that moved entries between them
C1_Witness ==
    /\ Quiescent
    /\ \A l \in LruTypes : lru_[l] # <<>>
    /\ InContainer = Nodes

\* C2: at quiescent points an entry's in-container bit is set exactly when
\* it is linked in exactly one list (and it is in no list otherwise), so the
\* lengths of the three lists add up to the number of in-container entries.
C2_InContainerIffLinked ==
    Quiescent =>
        /\ \A n \in Nodes :
              /\ node[n].inMMContainer <=> Cardinality(Places(n)) = 1
              /\ ~node[n].inMMContainer => Places(n) = {}
        /\ Len(lru_["Tiny"]) + Len(lru_["Probation"]) + Len(lru_["Main"])
              = Cardinality(InContainer)
\* an entry has just been removed and others are still linked
C2_Witness ==
    /\ Quiescent
    /\ ret.op \in {"remove", "removeIt", "replace"} /\ ret.val
    /\ ~node[ret.node].inMMContainer
    /\ InContainer # {}

\* |Tiny| <= floor(tinySizePercent * |container| / 100)
TinyCapHolds ==
    Len(lru_["Tiny"])
        <= (config_.tinySizePercent
              * (Len(lru_["Tiny"]) + Len(lru_["Probation"]) + Len(lru_["Main"])))
           \div 100

\* C3 as stated: whenever an add has returned true, whatever calls preceded
\* it, |Tiny| <= floor(tinySizePercent * |container| / 100).
C3_TinyCapAfterEveryAdd ==
    (ret.op = "add" /\ ret.val) => TinyCapHolds
\* C3: an add that returns true leaves |Tiny| within
\* floor(tinySizePercent * |container| / 100) if Tiny was within it when the
\* add began.
C3_AddKeepsTinyCap ==
    [][(ret'.op = "add" /\ ret'.val /\ TinyCapHolds) => TinyCapHolds']_vars
\* an add has returned true with an entry left in Tiny and the cap met
C3_Witness ==
    /\ ret.op = "add" /\ ret.val
    /\ lru_["Tiny"] # <<>>
    /\ lru_["Probation"] # <<>>
    /\ TinyCapHolds

\* |Main| <= floor(protectionSegmentSizePct * (|Main| + |Probation|) / 100)
MainCapHolds ==
    Len(lru_["Main"])
        <= (config_.protectionSegmentSizePct
              * (Len(lru_["Main"]) + Len(lru_["Probation"]))) \div 100
\* a recordAccess has returned true for an entry that was in Probation when
\* the call took the lock and is in Main now
PromotedToMain ==
    /\ ret.op = "recordAccess" /\ ret.val
    /\ ret.info = "Probation"
    /\ node[ret.node].inMMContainer
    /\ FlaggedList(ret.node) = "Main"

\* C4: whenever a recordAccess that promoted its entry from Probation to
\* Main has completed, |Main| <=
\* floor(protectionSegmentSizePct * (|Main| + |Probation|) / 100).
C4_MainCapAfterPromotion == PromotedToMain => MainCapHolds


\* the entries with their Accessed bits left out
WithoutAccessed(nd) == [n \in Nodes |-> [nd[n] EXCEPT !.kMMFlag1 = FALSE]]
\* the container and what the calls write in the entries with the lock held
LockedState ==
    <<lru_, WithoutAccessed(node), accessFreq_, windowSize_, maxWindowSize_,
      capacity_, config_, lruRefreshTime_, nextReconfigureTime_>>

C6_FailedTryLockChangesNothing ==
    [][\A t \in Threads :
          (pc[t] = "lock" /\ pc'[t] = "idle" /\ ret'.info = "trylock") =>
              /\ ~local[t].wrote
              /\ UNCHANGED containerVars]_vars
\* C6: with tryLockUpdate, a recordAccess that finds the lock held returns
\* false and has changed nothing but the entry's Accessed bit, which it sets
\* before it tries the lock: the other flag bits, updateTime, the lists, the
\* sketch, windowSize and lruRefreshTime are as they were.
C6_FailedTryLockOnlyMarks ==
    [][\A t \in Threads :
          /\ (pc[t] = "idle" /\ pc'[t] = "mark") => UNCHANGED containerVars
          /\ (pc[t] = "mark" /\ pc'[t] = "lock") =>
                /\ node' = [node EXCEPT ![local[t].node].kMMFlag1 = TRUE]
                /\ LockedState' = LockedState
          /\ (pc[t] = "lock" /\ pc'[t] = "idle" /\ lruMutex_ # NoThread) =>
                /\ config_.tryLockUpdate
                /\ ret' = ReturnedAccess(local[t].node, local[t].mode,
                                         FALSE, "trylock")
                /\ UNCHANGED containerVars]_vars
\* a recordAccess has failed to take the lock and its entry, still in the
\* container, has the Accessed bit the call set
C6_Witness ==
    /\ ret.op = "recordAccess" /\ ~ret.val /\ ret.info = "trylock"
    /\ lruMutex_ # NoThread
    /\ node[ret.node].inMMContainer
    /\ node[ret.node].kMMFlag1


\* the iterator of thread t has only been advanced with ++ since it was
\* obtained or reset: every entry it has passed is still in the container
PureWalk(t) ==
    \A i \in DOMAIN walk[t] : walk[t][i] \in InContainer
InMain(n) == n \in ToSet(lru_["Main"])

\* C7: an eviction iterator advanced with ++ alone yields every
\* in-container entry exactly once: it never repeats an entry, while it is
\* valid it points at an entry not yet yielded, and it is invalid exactly
\* when it has been advanced |container| times, having passed every entry.
C7_WalkYieldsEachOnce ==
    \A t \in Threads :
        (pc[t] = "iter" /\ PureWalk(t)) =>
            /\ \A i \in DOMAIN walk[t], j \in DOMAIN walk[t] :
                  i # j => walk[t][i] # walk[t][j]
            /\ iterValid(iter[t]) =>
                  /\ Len(walk[t]) < Cardinality(InContainer)
                  /\ iterDeref(Cur, iter[t]) \in InContainer \ ToSet(walk[t])
            /\ ~iterValid(iter[t]) =>
                  /\ Len(walk[t]) = Cardinality(InContainer)
                  /\ ToSet(walk[t]) = InContainer
\* a walk over entries in all three lists has come to its end
C7_Witness ==
    \E t \in Threads :
        /\ pc[t] = "iter" /\ PureWalk(t) /\ ~iterValid(iter[t])
        /\ Len(walk[t]) = MaxNodes
        /\ \A l \in LruTypes : lru_[l] # <<>>

\* C8: in a walk no Main entry is yielded while a Tiny or Probation entry
\* has not been yielded; the Main entries are yielded from Main's tail to
\* its head, and the last entry of a finished walk is the head of Main when
\* Main is not empty.
C8_MainLastTailToHead ==
    \A t \in Threads :
        (pc[t] = "iter" /\ PureWalk(t)) =>
            LET w == walk[t]
                M == lru_["Main"]
                yieldedMain == SelectSeq(w, InMain)
                others == {n \in InContainer : ~InMain(n)}
            IN  /\ \A i \in DOMAIN w :
                      InMain(w[i]) => others \subseteq {w[j] : j \in 1 .. (i - 1)}
                /\ (iterValid(iter[t]) /\ InMain(iterDeref(Cur, iter[t]))) =>
                      /\ others \subseteq ToSet(w)
                      /\ iterDeref(Cur, iter[t]) = M[Len(M) - Len(yieldedMain)]
                /\ \A k \in DOMAIN yieldedMain :
                      yieldedMain[k] = M[Len(M) - k + 1]
                /\ (~iterValid(iter[t]) /\ M # <<>>) => w[Len(w)] = M[1]
\* a finished walk that passed a Tiny entry and then two Main entries
C8_Witness ==
    \E t \in Threads :
        /\ pc[t] = "iter" /\ PureWalk(t) /\ ~iterValid(iter[t])
        /\ Len(lru_["Main"]) >= 2
        /\ lru_["Tiny"] # <<>>

\* only remove(iterator) has been called on the iterator of thread t since
\* it was obtained or reset, and the iterator is no longer valid
RemovedToTheEnd(t) ==
    /\ pc[t] = "iter"
    /\ ~iterValid(iter[t])
    /\ \A i \in DOMAIN walk[t] : walk[t][i] \notin InContainer

\* C9: remove(iterator) on a valid iterator removes exactly the entry the
\* iterator pointed at: that entry is unlinked and its Tiny, Probation,
\* Accessed and in-container bits are clear, every other entry and the rest
\* of the container are as before, and the iterator is where ++ would have
\* put it; when remove(iterator) has been called until the iterator is
\* invalid the container is empty.
C9_RemoveByIterator ==
    [][\A t \in Threads :
          /\ (pc[t] = "iter" /\ ret'.op = "removeIt" /\ walk'[t] # walk[t]) =>
                LET n == iterDeref(Cur, iter[t])
                IN  /\ iterValid(iter[t])
                    /\ n \in InContainer
                    /\ ret'.node = n
                    /\ node' = [node EXCEPT ![n].inMMContainer = FALSE,
                                            ![n].kMMFlag0 = FALSE,
                                            ![n].kMMFlag1 = FALSE,
                                            ![n].kMMFlag2 = FALSE]
                    /\ \A l \in LruTypes :
                          lru_'[l] = SelectSeq(lru_[l], LAMBDA x : x # n)
                    /\ UNCHANGED <<accessFreq_, windowSize_, maxWindowSize_,
                                   capacity_, config_, lruRefreshTime_,
                                   nextReconfigureTime_>>
                    /\ iter'[t] = iterAdvance(Cur, iter[t])
                    /\ iterValid(iter'[t]) =>
                          iterDeref(Cur', iter'[t]) \in InContainer' \ ToSet(walk'[t])
          /\ RemovedToTheEnd(t)' => InContainer' = {}]_vars
\* every entry has been removed through the iterator, which was valid
\* after all removals but the last and is invalid now
C9_Witness ==
    \E t \in Threads :
        /\ RemovedToTheEnd(t)
        /\ ret.op = "removeIt"
        /\ Len(walk[t]) = MaxNodes
        /\ InContainer = {}

\* C10: an add of an entry already in the container, a remove of an entry
\* not in the container, and a replace(old, new) where old is not in the
\* container, or new is in the container, or new has its Tiny or Probation
\* bit set, return false; and every add, remove or replace that returns
\* false leaves the lists, the entries' flags and update times, the sketch
\* and windowSize as they were.
C10_FailingCallsChangeNothing ==
    [][/\ (/\ ret'.op \in {"add", "remove", "replace"}
           /\ \/ ret'.op = "add" /\ node[ret'.node].inMMContainer
              \/ ret'.op = "remove" /\ ~node[ret'.node].inMMContainer
              \/ /\ ret'.op = "replace"
                 /\ \/ ~node[ret'.node].inMMContainer
                    \/ node[ret'.node2].inMMContainer
                    \/ node[ret'.node2].kMMFlag0
                    \/ node[ret'.node2].kMMFlag2) => ~ret'.val
       /\ (ret'.op \in {"add", "remove", "replace"} /\ ~ret'.val) =>
             UNCHANGED containerVars]_vars
\* a replace has been refused for a new entry that is in the container, in
\* Main, with neither list bit set
C10_Witness ==
    /\ ret.op = "replace" /\ ~ret.val
    /\ node[ret.node].inMMContainer
    /\ ret.node2 # ret.node
    /\ node[ret.node2].inMMContainer
    /\ InMain(ret.node2)

\* ---- C11
\* the entry is the first of the named list
AtHeadOf(l, n, type) == l[type] # <<>> /\ Head(l[type]) = n
\* C11 as stated: when add(E) has returned true, E is at the head of Tiny
\* with TinyBit set and ProbationBit clear, is in-container, has AccessedBit
\* clear, and its updateTime is the time that add read.
C11_AddedAtTinyHead ==
    (ret.op = "add" /\ ret.val) =>
        /\ AtHeadOf(lru_, ret.node, "Tiny")
        /\ isTiny(node, ret.node) /\ ~isProbation(node, ret.node)
        /\ node[ret.node].inMMContainer /\ ~isAccessed(node, ret.node)
        /\ getUpdateTime(node, ret.node) = now
\* C11, amended: when add(E) returns true, E is in-container with AccessedBit
\* clear and updateTime equal to the time that add read; E is at the head of
\* Tiny with TinyBit set and ProbationBit clear whenever Tiny held another
\* entry before the add, and when Tiny was empty before the add E is either
\* so at the head of Tiny or has been moved by the same add to the head of
\* Probation with ProbationBit set and TinyBit clear.
C11_AddedAtHead ==
    [][(ret'.op = "add" /\ ret'.val) =>
        LET n == ret'.node
            inTiny == /\ AtHeadOf(lru_', n, "Tiny")
                      /\ isTiny(node', n) /\ ~isProbation(node', n)
            inProbation == /\ AtHeadOf(lru_', n, "Probation")
                           /\ isProbation(node', n) /\ ~isTiny(node', n)
        IN  /\ node'[n].inMMContainer /\ ~isAccessed(node', n)
            /\ getUpdateTime(node', n) = now
            /\ IF lru_["Tiny"] # <<>> THEN inTiny ELSE inTiny \/ inProbation
      ]_vars
\* an add at a later time has left its entry at the head of Tiny, next to
\* entries in Probation
C11_Witness ==
    /\ ret.op = "add" /\ ret.val /\ now > 0
    /\ AtHeadOf(lru_, ret.node, "Tiny") /\ lru_["Probation"] # <<>>
    /\ getUpdateTime(node, ret.node) = now

\* ---- C12
\* list l without entry n, the others in their order
Without(l, n) == SelectSeq(l, LAMBDA x : x # n)
\* C12: a remove(E) that returns true unlinks E and clears its TinyBit,
\* ProbationBit, AccessedBit and in-container bit, and changes nothing else:
\* the other entries keep their lists, order, flags and updateTime, and the
\* sketch, windowSize, capacity_, maxWindowSize and the configuration are
\* as before.
C12_RemoveOnlyUnlinks ==
    [][(ret'.op = "remove" /\ ret'.val) =>
        LET n == ret'.node
        IN  /\ node' = [node EXCEPT ![n] = [@ EXCEPT !.kMMFlag0 = FALSE,
                                                    !.kMMFlag1 = FALSE,
                                                    !.kMMFlag2 = FALSE,
                                                    !.inMMContainer = FALSE]]
            /\ \A type \in LruTypes : lru_'[type] = Without(lru_[type], n)
            /\ \A type \in LruTypes :
                   \A i \in DOMAIN lru_'[type] : lru_'[type][i] # n
            /\ UNCHANGED <<accessFreq_, windowSize_, capacity_, maxWindowSize_,
                           config_, lruRefreshTime_, nextReconfigureTime_>>
      ]_vars
\* an entry has been removed from a list that keeps two others, one of them
\* with its AccessedBit set
C12_Witness ==
    /\ ret.op = "remove" /\ ret.val /\ ~node[ret.node].inMMContainer
    /\ \E type \in LruTypes : ret.info = type /\ Len(lru_[type]) = 2
    /\ \E m \in InContainer : isAccessed(node, m)

\* ---- C13
\* C13: a replace(old, new) that returns true puts new at the exact list
\* position of old, gives new the segment flag, updateTime and AccessedBit of
\* old, clears old's in-container bit and segment flags, and leaves the
\* segment sizes, the order of the other entries and the sketch unchanged.
C13_ReplaceTakesThePlace ==
    [][(ret'.op = "replace" /\ ret'.val) =>
        LET old == ret'.node
            new == ret'.node2
        IN  /\ \A type \in LruTypes :
                   /\ Len(lru_'[type]) = Len(lru_[type])
                   /\ \A i \in DOMAIN lru_[type] :
                          lru_'[type][i] = IF lru_[type][i] = old THEN new
                                           ELSE lru_[type][i]
            /\ \E type \in LruTypes : old \in ToSet(lru_[type])
            /\ node'[new] = [node[old] EXCEPT !.inMMContainer = TRUE]
            /\ ~node'[old].inMMContainer
            /\ ~isTiny(node', old) /\ ~isProbation(node', old)
            /\ \A m \in Nodes \ {old, new} : node'[m] = node[m]
            /\ UNCHANGED <<accessFreq_, windowSize_, maxWindowSize_, capacity_>>
      ]_vars
\* a replace has put its new entry, AccessedBit set, at the tail of a list
\* behind another entry, at a time after the old entry's updateTime
C13_Witness ==
    /\ ret.op = "replace" /\ ret.val /\ node[ret.node2].inMMContainer
    /\ \E type \in LruTypes :
          /\ ret.info = type /\ Len(lru_[type]) = 2
          /\ lru_[type][2] = ret.node2
    /\ isAccessed(node, ret.node2)
    /\ getUpdateTime(node, ret.node2) < now

\* ---- C14
\* C14: whenever recordAccess(E) has returned true, E is at the head of the
\* list it is linked in and its updateTime is the time that call read.
C14_TrueMeansAtHead ==
    (ret.op = "recordAccess" /\ ret.val) =>
        /\ \E type \in LruTypes : AtHeadOf(lru_, ret.node, type)
        /\ moved[ret.node] = {getUpdateTime(node, ret.node)}

\* ---- C15
\* thread t's recordAccess moves its entry and returns true with this step
Moves(t) == pc[t] = "lock" /\ pc'[t] = "idle" /\ ret'.val
C17_IgnoredModeChangesNothing ==
    [][(/\ ret'.op = "recordAccess"
        /\ \/ ret'.mode = "kWrite" /\ ~config_.updateOnWrite
           \/ ret'.mode = "kRead" /\ ~config_.updateOnRead)
       => ~ret'.val /\ UNCHANGED containerVars
      ]_vars
\* a write of an entry in the container whose AccessedBit is clear has
\* returned at the mode test
C17_Witness ==
    /\ ret.op = "recordAccess" /\ ret.info = "mode" /\ ret.mode = "kWrite"
    /\ ~config_.updateOnWrite /\ config_.updateOnRead
    /\ node[ret.node].inMMContainer /\ ~isAccessed(node, ret.node)

\* ---- C18
\* C18: with protectionFreq = 3 and lruRefreshTime = 0, from an empty
\* container, add(K) and four recordAccess(K, read) leave K in Main: linked
\* in the Main list with TinyBit and ProbationBit clear.
C18_FourReadsProtect ==
    \A K \in Nodes :
        (/\ InContainer = {K} /\ windowSize_ = 5 /\ Quiescent
         /\ ret.op = "recordAccess" /\ ret.val /\ ret.node = K
         /\ config_.protectionFreq_ = 3 /\ lruRefreshTime_ = 0)
        => /\ lru_["Main"] = <<K>>
           /\ ~isTiny(node, K) /\ ~isProbation(node, K)

\* ---- C19
\* the sizes of the three lists
Sizes == <<Len(lru_["Tiny"]), Len(lru_["Probation"]), Len(lru_["Main"])>>
\* C19 as stated: with tinySizePercent = 10, adding 100 distinct keys to an
\* empty container gives |Tiny| = 10 and |Probation| = 1 after the 11th
\* add, and |Tiny| = 10, |Probation| = 90, |Main| = 0 after the 100th.
C19_SizesAsStated ==
    /\ lruSize(lru_) = 11 => Sizes = <<10, 1, 0>>
    /\ lruSize(lru_) = 100 => Sizes = <<10, 90, 0>>
\* C19, amended: |Tiny| = 1 and |Probation| = 10 after the 11th add, and
\* |Tiny| = 10, |Probation| = 90, |Main| = 0 after the 100th.
C19_SizesAsComputed ==
    /\ lruSize(lru_) = 11 => Sizes = <<1, 10, 0>>
    /\ lruSize(lru_) = 100 => Sizes = <<10, 90, 0>>
\* the 100th key has been added
C19_Witness ==
    /\ ret.op = "add" /\ ret.val /\ ret.node = 100
    /\ lruSize(lru_) = 100 /\ config_.tinySizePercent = 10

\* ---- C20
\* both segment caps hold within one entry
CapsWithinOne ==
    /\ Len(lru_["Tiny"]) <=
          (config_.tinySizePercent * lruSize(lru_)) \div 100 + 1
    /\ Len(lru_["Main"]) <=
          (config_.protectionSegmentSizePct
              * (Len(lru_["Main"]) + Len(lru_["Probation"]))) \div 100 + 1
\* C20 as stated: at every quiescent point of every sequence of add, remove
\* and recordAccess, |Tiny| <= floor(tinySizePercent * |container| / 100) + 1
\* and |Main| <= floor(protectionSegmentSizePct * (|Main| + |Probation|) /
\* 100) + 1.
C20_CapsAtEveryQuiescentPoint == Quiescent => CapsWithinOne
\* C20, amended: every add and every recordAccess that starts with both caps
\* holding within one entry ends with them holding within one entry, so
\* they hold at every quiescent point of a sequence of add and recordAccess;
\* a remove does not rebalance and may leave a segment further above its
\* cap.
C20_AddAndAccessKeepCaps ==
    [][(CapsWithinOne /\ ~(ret'.op = "remove" /\ ret'.val))
       => CapsWithinOne']_vars
\* a recordAccess has promoted an entry into a Main list that is at its cap,
\* with two entries in Tiny
C20_Witness ==
    /\ ret.op = "recordAccess" /\ ret.val /\ ret.info = "Probation"
    /\ Len(lru_["Tiny"]) = 2 /\ Len(lru_["Main"]) = 1
    /\ lruSize(lru_) = 5 /\ CapsWithinOne

\* ---- C21
\* this step is an add that returns true
AddStep == ret'.op = "add" /\ ret'.val
\* the tails that maybePromoteTailLocked finds in that add: the Tiny tail
\* once the new entry is linked, and the Probation tail
ArbiterTiny == IF lru_["Tiny"] = <<>> THEN ret'.node ELSE getTail(lru_["Tiny"])
ArbiterProbation == getTail(lru_["Probation"])
\* the add does not overflow the Tiny cap
NoOverflow ==
    Len(lru_["Tiny"]) + 1 <=
        (config_.tinySizePercent * (lruSize(lru_) + 1)) \div 100
\* the add runs the arbiter on two tails
ArbiterRuns == AddStep /\ NoOverflow /\ lru_["Probation"] # <<>>
\* the count of an entry's key when the add returns (the sketch is neither
\* decayed nor replaced by the adds of these specifications)
FreqAfter(n) == getCount(accessFreq_', hashNode(n))
\* the two tails have changed places
Swapped ==
    /\ getHead(lru_'["Probation"]) = ArbiterTiny
    /\ getTail(lru_'["Tiny"]) = ArbiterProbation
\* C21: admitToProbation(t, p) is freq(t) >= freq(p) when newcomerWinsOnTie
\* is set and freq(t) > freq(p) when it is clear: an add that runs the
\* arbiter swaps the Tiny tail and the Probation tail iff that holds, so at
\* equal frequency iff newcomerWinsOnTie is set.
C21_TieGoesToNewcomerIffSet ==
    [][ArbiterRuns =>
        /\ Swapped <=> IF config_.newcomerWinsOnTie
                        THEN FreqAfter(ArbiterTiny) >= FreqAfter(ArbiterProbation)
                        ELSE FreqAfter(ArbiterTiny) > FreqAfter(ArbiterProbation)
        /\ FreqAfter(ArbiterTiny) = FreqAfter(ArbiterProbation)
              => (Swapped <=> config_.newcomerWinsOnTie)
      ]_vars
\* an add has swapped an older Tiny tail with a Probation tail of equal
\* count, both counted more than once
C21_Witness ==
    /\ ret.op = "add" /\ ret.val /\ ret.info = "swap"
    /\ config_.newcomerWinsOnTie
    /\ Len(lru_["Tiny"]) = 2 /\ getHead(lru_["Tiny"]) = ret.node
    /\ getCount(accessFreq_, hashNode(getHead(lru_["Probation"])))
          = getCount(accessFreq_, hashNode(getTail(lru_["Tiny"])))
    /\ getCount(accessFreq_, hashNode(getTail(lru_["Tiny"]))) >= 2

\* ---- C22
\* this step is a fetch: an add or a recordAccess that returns true
FetchStep == AddStep \/ (ret'.op = "recordAccess" /\ ret'.val)
\* the counters of the sketch that the key of entry n addresses
KeyCells(n) == {getIndex(accessFreq_.width, r, hashNode(n)) : r \in Rows}
\* the fetch counts its key and the window, and decays exactly when the
\* window fills
CountsAndDecays ==
    IF windowSize_ + 1 = maxWindowSize_
    THEN /\ windowSize_' = (windowSize_ + 1) \div 2
         /\ DOMAIN accessFreq_'.table = DOMAIN accessFreq_.table
         /\ \A c \in DOMAIN accessFreq_.table :
                accessFreq_'.table[c] =
                    (accessFreq_.table[c]
                        + IF c \in KeyCells(ret'.node) THEN 1 ELSE 0) \div 2
    ELSE /\ windowSize_' = windowSize_ + 1
         /\ getCount(accessFreq_', hashNode(ret'.node))
                = getCount(accessFreq_, hashNode(ret'.node)) + 1
         /\ \A g \in Hashes \ {hashNode(ret'.node)} :
                getCount(accessFreq_', g) = getCount(accessFreq_, g)
\* C22 as stated: every successful add and every recordAccess that returns
\* true increments its key's count and windowSize by one; windowSize <=
\* maxWindowSize always; exactly when the increment makes windowSize equal
\* maxWindowSize, windowSize and every counter are halved (rounding down);
\* at any other increment the counts of the other keys are unchanged.
C22_EveryFetchCounts ==
    [][FetchStep => CountsAndDecays /\ windowSize_' <= maxWindowSize_']_vars
\* the add re-creates the counters: 2 * capacity_ <= |container| once the
\* entry is linked
AddGrows == AddStep /\ 2 * capacity_ <= lruSize(lru_) + 1
\* C22, amended: the same of every recordAccess that returns true and of
\* every successful add that does not re-create the counters; an add that
\* re-creates them leaves windowSize 0 and every count 0.
C22_EveryFetchCountsUnlessGrown ==
    [][FetchStep =>
        /\ windowSize_' <= maxWindowSize_'
        /\ IF AddGrows
           THEN /\ windowSize_' = 0
                /\ \A g \in Hashes : getCount(accessFreq_', g) = 0
           ELSE CountsAndDecays
      ]_vars
\* a read of key 1 has filled the window: windowSize is halved and the count
\* of key 2, which was 1, is 0
C22_Witness ==
    /\ ret.op = "recordAccess" /\ ret.val /\ ret.node = 1
    /\ windowSize_ = maxWindowSize_ \div 2
    /\ node[2].inMMContainer /\ getCount(accessFreq_, hashNode(2)) = 0
    /\ getCount(accessFreq_, hashNode(1)) = windowSize_ - 1

\* ---- C23
\* C23: across any sequence of operations (removes and setConfig included)
\* capacity_ and the sketch's counter width never decrease.
C23_CapacityAndWidthNeverDecrease ==
    [][capacity_' >= capacity_ /\ accessFreq_'.width >= accessFreq_.width]_vars

\* ---- C24
\* C24: saveState followed by constructing a container from the saved
\* object reproduces the same entry order in each segment and the same
\* configuration, every Config field included (defaultLruRefreshTime and
\* tryLockUpdate among them).
C24_RestoreReproduces ==
    [][ret'.op = "restore" => lru_' = lru_ /\ config_' = config_]_vars

\* ---- C25
\* thread t's recordAccess takes the lock in this step and runs
\* reconfigureLocked(curr) with the curr it read before the lock
Reconfigures(t) ==
    pc[t] = "lock" /\ pc'[t] = "idle" /\ ret'.info # "trylock"
\* oldestElementAge * lruRefreshRatio at the time of the call
ScaledAge ==
    (oldestElementAge(Cur, now) * config_.lruRefreshRatioNum)
        \div config_.lruRefreshRatioDen
\* reconfigure before its time changes nothing; at its time it sets the
\* next time
ReconfigureInTime(t) ==
    IF local[t].curr < nextReconfigureTime_
    THEN UNCHANGED <<lruRefreshTime_, nextReconfigureTime_>>
    ELSE nextReconfigureTime_' =
            local[t].curr + config_.mmReconfigureIntervalSecs
\* C25 as stated: reconfigure(now) changes nothing when now <
\* nextReconfigureTime; otherwise it sets nextReconfigureTime = now +
\* mmReconfigureIntervalSecs and lruRefreshTime = oldestElementAge *
\* lruRefreshRatio clamped into [defaultLruRefreshTime, 900], never below
\* defaultLruRefreshTime and never above 900.
C25_ClampedIntoDefaultAndCap ==
    [][\A t \in Threads : Reconfigures(t) =>
        /\ ReconfigureInTime(t)
        /\ local[t].curr >= nextReconfigureTime_ =>
              /\ lruRefreshTime_' >= config_.defaultLruRefreshTime
              /\ lruRefreshTime_' <= kLruRefreshTimeCap
              /\ (/\ ScaledAge >= config_.defaultLruRefreshTime
                  /\ ScaledAge <= kLruRefreshTimeCap)
                    => lruRefreshTime_' = ScaledAge
      ]_vars
\* C25, amended: the same with lruRefreshTime = min(max(
\* defaultLruRefreshTime, oldestElementAge * lruRefreshRatio), 900): never
\* above 900, and never below defaultLruRefreshTime unless
\* defaultLruRefreshTime is above 900, when lruRefreshTime is 900.
C25_DefaultThenCap ==
    [][\A t \in Threads : Reconfigures(t) =>
        /\ ReconfigureInTime(t)
        /\ local[t].curr >= nextReconfigureTime_ =>
              /\ lruRefreshTime_' <= kLruRefreshTimeCap
              /\ IF config_.defaultLruRefreshTime > kLruRefreshTimeCap
                 THEN lruRefreshTime_' = kLruRefreshTimeCap
                 ELSE /\ lruRefreshTime_' >= config_.defaultLruRefreshTime
                      /\ ScaledAge < config_.defaultLruRefreshTime
                            => lruRefreshTime_' = config_.defaultLruRefreshTime
                      /\ ScaledAge > kLruRefreshTimeCap
                            => lruRefreshTime_' = kLruRefreshTimeCap
                      /\ (/\ ScaledAge >= config_.defaultLruRefreshTime
                          /\ ScaledAge <= kLruRefreshTimeCap)
                            => lruRefreshTime_' = ScaledAge
      ]_vars
\* a reconfigure has set lruRefreshTime to the scaled age of the oldest Main
\* entry, strictly between the default and the cap
C25_Witness ==
    /\ ret.op = "recordAccess" /\ ret.val
    /\ nextReconfigureTime_ = now + config_.mmReconfigureIntervalSecs
    /\ lruRefreshTime_ > config_.defaultLruRefreshTime
    /\ lruRefreshTime_ < kLruRefreshTimeCap

\* ---- C26
\* a recordAccess of an entry that was in Probation when the lock was taken
\* returns true in this step
ProbationAccess == ret'.op = "recordAccess" /\ ret'.val /\ ret'.info = "Probation"
\* the count of the entry's key before the call's own increment
CountBefore == getCount(accessFreq_, hashNode(ret'.node))
\* C26: a recordAccess that returns true on a Probation entry promotes it to
\* Main (linked at Main's head, ProbationBit cleared) iff the count of its
\* key, read before the call's own increment, is strictly greater than
\* protectionFreq; an entry whose count equals protectionFreq stays in
\* Probation.
C26_PromotedIffAboveProtectionFreq ==
    [][ProbationAccess =>
        /\ (lru_'["Main"] # <<>> /\ Head(lru_'["Main"]) = ret'.node
                /\ ~node'[ret'.node].kMMFlag2)
              <=> CountBefore > config_.protectionFreq_
        /\ CountBefore = config_.protectionFreq_
              => (lru_'["Probation"] # <<>>
                    /\ Head(lru_'["Probation"]) = ret'.node
                    /\ node'[ret'.node].kMMFlag2)
      ]_vars

\* ---- C27
\* the entries this step takes out of the Main list and leaves in the
\* container
Demoted == {m \in ToSet(lru_["Main"]) : m \notin ToSet(lru_'["Main"])}
\* the call of this step has promoted its own entry: the entry was in
\* Probation and its count was above protectionFreq
PromotesOwn == ProbationAccess /\ CountBefore > config_.protectionFreq_
\* no entry changes its segment in this step
SegmentsKept ==
    /\ \A l \in LruTypes : ToSet(lru_'[l]) = ToSet(lru_[l])
    /\ \A m \in DOMAIN node :
          /\ node'[m].kMMFlag0 = node[m].kMMFlag0
          /\ node'[m].kMMFlag2 = node[m].kMMFlag2
\* C27: recordAccess demotes entries out of Main only in a call that has
\* just promoted its own entry from Probation to Main; each demoted entry is
\* the then-current tail of Main, is linked at the tail (not the head) of
\* Probation and gets ProbationBit set; a recordAccess on an entry that is
\* in Tiny or already in Main changes no entry's segment.
C27_DemotionOnlyAfterOwnPromotion ==
    [][ret'.op = "recordAccess" =>
        /\ Demoted # {} => PromotesOwn
        /\ \A d \in Demoted :
              /\ d = getTail(lru_["Main"])
              /\ getTail(lru_'["Probation"]) = d
              /\ node'[d].kMMFlag2
        /\ (PromotesOwn /\ ret'.node \notin ToSet(lru_'["Main"])) =>
              /\ lru_["Main"] = <<>>
              /\ getTail(lru_'["Probation"]) = ret'.node
              /\ node'[ret'.node].kMMFlag2
        /\ (~ProbationAccess \/ ~PromotesOwn) => SegmentsKept
      ]_vars
\* a recordAccess has promoted its entry to the head of Main and an entry
\* that a recordAccess had moved into Main is at the tail of Probation,
\* behind another entry, with ProbationBit set
C27_Witness ==
    /\ ret.op = "recordAccess" /\ ret.val /\ ret.info = "Probation"
    /\ lru_["Main"] = <<ret.node>>
    /\ Len(lru_["Probation"]) >= 2
    /\ moved[getTail(lru_["Probation"])] # {}
    /\ moved[Head(lru_["Probation"])] = {}
    /\ isProbation(node, getTail(lru_["Probation"]))

\* ---- C28
\* the Tiny list of an add once the new entry is linked at its head
TinyLinked == <<ret'.node>> \o lru_["Tiny"]
\* admitToProbation on the two tails, by the counts the add has made
Admitted ==
    IF config_.newcomerWinsOnTie
    THEN FreqAfter(ArbiterTiny) >= FreqAfter(ArbiterProbation)
    ELSE FreqAfter(ArbiterTiny) > FreqAfter(ArbiterProbation)
RecheckFails == ret'.op = "recordAccess" /\ ~ret'.val /\ ret'.info = "recheck"
\* C30: if another thread removes the entry after recordAccess's unlocked
\* test and before recordAccess takes the lock, the re-check under the lock
\* makes recordAccess return false with the container unchanged: the lists,
\* the sketch, windowSize, lruRefreshTime and nextReconfigureTime are as the
\* removing thread left them.
C30_RecheckLeavesContainer ==
    [][RecheckFails =>
        UNCHANGED <<lru_, accessFreq_, windowSize_, lruRefreshTime_,
                    nextReconfigureTime_>>
      ]_vars

\* ---- C31
\* admitToProbation(t, p) by the counts of the two keys
AdmitsNow(t, p) ==
    IF config_.newcomerWinsOnTie
    THEN getCount(accessFreq_, hashNode(t)) >= getCount(accessFreq_, hashNode(p))
    ELSE getCount(accessFreq_, hashNode(t)) > getCount(accessFreq_, hashNode(p))
\* C31: when the eviction iterator's Tiny and Probation cursors are both
\* live, pointing at t and p, it yields t iff admitToProbation(t, p) is
\* false and p otherwise, whether or not the Main cursor is live; when
\* exactly one of the two is live it yields that one.
C31_WeakerOfTinyAndProbationFirst ==
    [][\A th \in Threads : (pc[th] = "iter" /\ ret'.op = "next") =>
        /\ (iter[th].t # NoNode /\ iter[th].p # NoNode) =>
              ret'.node = IF AdmitsNow(iter[th].t, iter[th].p)
                          THEN iter[th].p ELSE iter[th].t
        /\ (iter[th].t # NoNode /\ iter[th].p = NoNode) => ret'.node = iter[th].t
        /\ (iter[th].t = NoNode /\ iter[th].p # NoNode) => ret'.node = iter[th].p
      ]_vars
\* with all three lists non-empty a fresh iterator has yielded the
\* Probation tail first: the Tiny tail was admitted over it
C31_Witness ==
    /\ ret.op = "next"
    /\ lru_["Tiny"] # <<>> /\ lru_["Main"] # <<>> /\ lru_["Probation"] # <<>>
    /\ \E th \in Threads :
          /\ pc[th] = "iter"
          /\ walk[th] = <<getTail(lru_["Probation"])>>
          /\ iter[th].t = getTail(lru_["Tiny"])
          /\ iter[th].m = getTail(lru_["Main"])

\* ---- C32
\* entry n is linked in the list of this type before, and after, the step
LinkedIn(type, n) == n \in ToSet(lru_[type])
LinkedInAfter(type, n) == n \in ToSet(lru_'[type])
\* C32: no single operation moves an entry directly between Tiny and Main:
\* an entry becomes a Main entry only by promotion from Probation inside a
\* recordAccess on that entry (or as the new side of a replace of a Main
\* entry), add never changes the membership or order of Main, and an entry
\* enters Tiny from Probation only through the arbiter swap inside an add.
C32_NoDirectMoveBetweenTinyAndMain ==
    [][/\ \A n \in DOMAIN node :
            /\ ~(LinkedIn("Tiny", n) /\ LinkedInAfter("Main", n))
            /\ ~(LinkedIn("Main", n) /\ LinkedInAfter("Tiny", n))
            /\ (~LinkedIn("Main", n) /\ LinkedInAfter("Main", n)) =>
                  \/ /\ ret'.op = "recordAccess" /\ ret'.val /\ ret'.node = n
                     /\ LinkedIn("Probation", n)
                  \/ /\ ret'.op = "replace" /\ ret'.val /\ ret'.node2 = n
                     /\ LinkedIn("Main", ret'.node)
            /\ (LinkedIn("Probation", n) /\ LinkedInAfter("Tiny", n)) =>
                  /\ ret'.op = "add" /\ ret'.val /\ ret'.info = "swap"
                  /\ n = getTail(lru_["Probation"])
       /\ ret'.op = "add" => lru_'["Main"] = lru_["Main"]
      ]_vars
\* a replace has put its new entry in the place of a Main entry while Tiny
\* holds another entry
C32_Witness ==
    /\ ret.op = "replace" /\ ret.val /\ ret.info = "Main"
    /\ ret.node2 \in ToSet(lru_["Main"])
    /\ ~node[ret.node].inMMContainer
    /\ lru_["Tiny"] # <<>>

\* ---- C33
\* C33 as stated: at every quiescent point every entry that is not in the
\* container has TinyBit, ProbationBit and AccessedBit clear, the old side
\* of a successful replace and an entry removed while another thread is
\* inside recordAccess on it included.
C33_OutsideEntriesHaveNoBits ==
    Quiescent =>
        \A n \in DOMAIN node :
            ~node[n].inMMContainer =>
                ~isTiny(node, n) /\ ~isProbation(node, n) /\ ~isAccessed(node, n)
\* C33, amended: at every quiescent point every entry that is not in the
\* container has TinyBit and ProbationBit clear; AccessedBit may be left
\* set on it.
C33_OutsideEntriesHaveNoSegmentBits ==
    Quiescent =>
        \A n \in DOMAIN node :
            ~node[n].inMMContainer => ~isTiny(node, n) /\ ~isProbation(node, n)
\* a replace has returned true and its old entry, outside the container,
\* still has the AccessedBit it handed to the new entry
C33_Witness ==
    /\ Quiescent
    /\ ret.op = "replace" /\ ret.val
    /\ ~node[ret.node].inMMContainer /\ isAccessed(node, ret.node)
    /\ ~isTiny(node, ret.node) /\ ~isProbation(node, ret.node)
    /\ isAccessed(node, ret.node2)

\* ---- C34
\* C34 as stated: when add(E) returns true the frequency estimate of E's key
\* is at least 1, also when the same add triggers a decay or a sketch
\* growth.
C34_AddedKeyCountsAtLeastOne ==
    (ret.op = "add" /\ ret.val) =>
        getCount(accessFreq_, hashNode(ret.node)) >= 1
\* C34, amended: when add(E) returns true and the add triggers neither a
\* decay nor a sketch growth, the estimate of E's key is one more than
\* before, so at least 1; an add that triggers a decay leaves half of that,
\* rounded down (0 when the estimate before was 0), and an add that triggers
\* a sketch growth leaves 0.
C34_AddedKeyCountsUnlessDecayedOrGrown ==
    [][AddStep =>
        FreqAfter(ret'.node) =
            IF AddGrows THEN 0
            ELSE IF windowSize_ + 1 = maxWindowSize_
            THEN (getCount(accessFreq_, hashNode(ret'.node)) + 1) \div 2
            ELSE getCount(accessFreq_, hashNode(ret'.node)) + 1
      ]_vars
\* an add of key 2 has filled the window without growing the sketch: the
\* window is halved and the key just added counts 0
C34_Witness ==
    /\ ret.op = "add" /\ ret.val /\ ret.node = 2
    /\ lruSize(lru_) = 2 /\ capacity_ = kDefaultCapacity
    /\ windowSize_ = maxWindowSize_ \div 2
    /\ getCount(accessFreq_, hashNode(2)) = 0

====
